---- MODULE Spec2Model ----
(***************************************************************************)
(* Knowledge service: document CRUD across the metadata store              *)
(* (DatabaseClient) and the vector index (VectorDBProvider), orchestrated  *)
(* by DocumentManager, and the searches of SearchManager and of the        *)
(* unified search endpoint (Spec, SpecNoFail); the two vector providers    *)
(* driven through their interface (SpecProvider); and the in-memory        *)
(* JobManager with its cleanup task and the shutdown of the application    *)
(* (SpecJobs, FairSpecJobs); the AnalyticsManager (SpecAnalytics); the     *)
(* unified search endpoint with its analytics tracking (SpecSearch); the   *)
(* provider factory and the startup of the application (SpecStartup,       *)
(* FairSpecStartup); provider calls over a failing backend                 *)
(* (SpecProviderFails); searches while the vector backend is unreachable   *)
(* (SpecUnreachable); the bulk endpoints (SpecBulk) and the bulk delete    *)
(* with its job (SpecBulkDelete, FairSpecBulkDelete); requests that        *)
(* interleave at their awaits (SpecConcurrent); both providers given the   *)
(* same calls (SpecLockstep); semantic search over an index larger than    *)
(* its window (SpecSemantic); and start_cleanup_task / stop_cleanup_task   *)
(* called in any order (SpecCleanupCalls).                                 *)
(*                                                                         *)
(* Text (titles, contents, tags, queries) is a sequence of one-character   *)
(* strings, so that joining, splitting, stripping, lower-casing and        *)
(* substring search are computed as the code computes them.                *)
(***************************************************************************)
EXTENDS Integers, Sequences, FiniteSets, TLC

VARIABLES
    db,        \* metadata store: document_id -> DocumentModel row
    index,     \* vector index, collection "faultmaven_kb": vector id -> entry
    clock,     \* the wall clock read by datetime.now(timezone.utc)
    nextId,    \* number of document ids handed out so far (uuid4 is always fresh)
    pc,        \* per request slot: "idle", the await the call is suspended at, or "done"
    op,        \* per request slot: the call in the slot and its arguments
    loc,       \* per request slot: the locals of the running call
    res,       \* per request slot: what the call returned or raised, once "done"
    calls,     \* per request slot: the store calls the call has issued, in order (history)
    creator,   \* document_id -> the owner whose create call allocated it (history)
    deletedIds, \* the document ids for which a delete call has returned true (history)
    backend,   \* the VectorDBProvider in use: "chroma" or "pinecone"
    provCall,  \* the last call made on the provider directly, and its arguments
    search_results, \* what the provider's last search() returned
    upserts,   \* vector id -> the last two different contents upserted under it (history)
    managed_index,  \* the managed provider's index when both providers get the same calls
    jobs,      \* JobManager.jobs: job_id -> Job
    cleanup_task,   \* JobManager._cleanup_task: "none", "running" or "cancelled"
    detached,       \* cleanup loops a later start_cleanup_task replaced, still scheduled
    jobCall,   \* the last JobManager call and its arguments
    terminal_since, \* job_id -> the time its status last became completed or failed (history)
    lifespan,  \* the application's lifespan: "running", "closing" (shutdown has begun) or "complete"
    search_history,       \* AnalyticsManager.search_history: the retained search records
    query_counts,         \* AnalyticsManager.query_counts, in order of first insertion
    search_results_count, \* AnalyticsManager.search_results_count
    analyticsCall,  \* the last AnalyticsManager call, and what it returned
    arrivals,  \* every search record tracked since the last reset, in arrival order (history)
    managers,  \* the managers the route modules hold: "none" until set_managers, then "set"
    env,       \* the environment read by the provider factory
    provider_instance, \* factory._vector_provider_instance: None or the provider object
    vector_client,     \* main.vector_client: the provider lifespan obtained, or None
    manager_client,    \* the vector_db the managers were built with, or None
    created,   \* the number of provider objects constructed so far
    factoryCall,       \* the last call on the factory or on initialize(), and its outcome
    first_provider,    \* the first provider get_vector_provider returned, or None (history)
    resets,    \* the number of reset_vector_provider calls so far (history)
    init_attempts,     \* the attempts of the running initialize() that have failed
    initialized        \* the ids of the providers whose client and collection are set

\* the metadata store and the request slots
service == <<db, clock, nextId, pc, op, loc, res, calls, creator, deletedIds>>

\* the state of the provider when it is driven directly
aside == <<backend, provCall, search_results, upserts, managed_index>>

\* the state of the JobManager
jobVars == <<jobs, cleanup_task, detached, jobCall, terminal_since, lifespan>>

\* the state of the AnalyticsManager
analytics == <<search_history, query_counts, search_results_count, analyticsCall, arrivals>>

\* what startup leaves behind
startup == <<managers, env, provider_instance, vector_client, manager_client, created,
             factoryCall, first_provider, resets, init_attempts, initialized>>

vars == <<db, index, clock, nextId, pc, op, loc, res, calls, creator, deletedIds, aside,
          jobVars, analytics, startup>>

-----------------------------------------------------------------------------
(* Bounds of the model *)

MaxDocs == 2
MaxClock == 4

-----------------------------------------------------------------------------
(* Input alphabets *)

Procs == {"r1", "r2"}
Serial == {"r1"}

Users == {"alice", "bob"}

TitleA == <<"D", "b">>
TitleB == <<"N", "e", "t">>
ContentX == <<"d", "b", " ", "l", "o", "g">>
ContentY == <<"n", "e", "t">>
TagDb == <<"d", "b">>
TagNet == <<"n", "e", "t">>
TagComma == <<"d", "b", ",", "x">>
MetaA == <<"v", "1">>
MetaB == <<"v", "2">>

Drafts ==
    { [title |-> TitleA, content |-> ContentX, document_type |-> "guide",
       tags |-> <<TagDb>>, metadata |-> MetaA],
      [title |-> TitleB, content |-> ContentY, document_type |-> "faq",
       tags |-> <<TagNet, TagComma>>, metadata |-> MetaA] }

\* A DocumentUpdate is the function from the fields that are not None to their values.
Patches ==
    { ("title" :> TitleB),
      ("tags" :> <<TagNet>>),
      ("content" :> ContentY) @@ ("document_type" :> "faq"),
      ("metadata" :> MetaB),
      << >> }

PatchFields == {"title", "content", "document_type", "tags", "metadata"}

DocIds == 1..MaxDocs

-----------------------------------------------------------------------------
(* Strings *)

RECURSIVE JoinComma(_)
\* ",".join(tags)
JoinComma(tags) ==
    IF tags = << >> THEN << >>
    ELSE IF Len(tags) = 1 THEN tags[1]
    ELSE tags[1] \o <<",">> \o JoinComma(Tail(tags))

\* title + "\n\n" + content
CombinedText(title, content) == title \o <<"\n", "\n">> \o content

CharCode(c) ==
    CASE c = "D" -> 1 [] c = "d" -> 2 [] c = "b" -> 3 [] c = "N" -> 4
      [] c = "n" -> 5 [] c = "e" -> 6 [] c = "t" -> 7 [] c = "l" -> 8
      [] c = "o" -> 9 [] c = "g" -> 10 [] OTHER -> 0

RECURSIVE SumCodes(_)
SumCodes(text) ==
    IF text = << >> THEN 0 ELSE CharCode(Head(text)) + SumCodes(Tail(text))

\* The embedding backend: a deterministic map from a text to a vector (here of
\* dimension one).
GenerateEmbedding(text) == SumCodes(text) % 7

EmbeddingId(document_id) == <<"emb", document_id>>

-----------------------------------------------------------------------------
(* Sequences *)

Min(a, b) == IF a <= b THEN a ELSE b
Max(a, b) == IF a >= b THEN a ELSE b

\* seq[:n]
Take(seq, n) == SubSeq(seq, 1, Min(Max(n, 0), Len(seq)))

\* seq[n:]
Drop(seq, n) == SubSeq(seq, Min(Max(n, 0), Len(seq)) + 1, Len(seq))

RECURSIVE SelectSeqBy(_, _)
\* [x for x in seq if x in keep]
SelectSeqBy(seq, keep) ==
    IF seq = << >> THEN << >>
    ELSE (IF Head(seq) \in keep THEN <<Head(seq)>> ELSE << >>)
         \o SelectSeqBy(Tail(seq), keep)

Range(seq) == { seq[i] : i \in DOMAIN seq }

-----------------------------------------------------------------------------
(* DatabaseClient: the metadata store *)

\* DocumentModel(...) as built by DocumentManager.create_document
DocumentModel(document_id, user_id, doc_data, created_at, updated_at) ==
    [ document_id |-> document_id,
      user_id |-> user_id,
      title |-> doc_data.title,
      content |-> doc_data.content,
      document_type |-> doc_data.document_type,
      tags |-> doc_data.tags,
      doc_metadata |-> doc_data.metadata,
      embedding_id |-> EmbeddingId(document_id),
      created_at |-> created_at,
      updated_at |-> updated_at ]

\* session.add(document); commit
DbCreateDocument(store, document) ==
    (document.document_id :> document) @@ store

\* get_document as it would be without the owner condition
DbGetDocumentAnyOwner(store, document_id, user_id) ==
    IF document_id \in DOMAIN store
    THEN [found |-> TRUE, row |-> store[document_id]]
    ELSE [found |-> FALSE]

\* select ... where document_id == :document_id and user_id == :user_id
DbGetDocument(store, document_id, user_id) ==
    IF document_id \in DOMAIN store /\ store[document_id].user_id = user_id
    THEN [found |-> TRUE, row |-> store[document_id]]
    ELSE [found |-> FALSE]

\* update as a full replacement: a field the patch leaves out falls back to its
\* column default
ApplyUpdatesReplacing(row, update_dict) ==
    [ k \in DOMAIN row |->
        IF k \in DOMAIN update_dict THEN update_dict[k]
        ELSE IF k = "tags" THEN << >>
        ELSE row[k] ]

\* for key, value in updates.items(): setattr(document, key, value)
ApplyUpdates(row, update_dict) ==
    [ k \in DOMAIN row |->
        IF k \in DOMAIN update_dict THEN update_dict[k] ELSE row[k] ]

\* updated_at as it would be without onupdate: never advanced
TouchNever(old, new, now) == new

\* updated_at has onupdate=now: it is set when the flush emits an UPDATE, which
\* the ORM does only when some attribute differs from its loaded value.
TouchUpdatedAt(old, new, now) ==
    IF new # old THEN [new EXCEPT !.updated_at = now] ELSE new

\* DatabaseClient.update_document: (store afterwards, refreshed row or none)
DbUpdateDocument(store, document_id, user_id, update_dict, now) ==
    LET got == DbGetDocument(store, document_id, user_id) IN
    IF ~got.found THEN [store |-> store, found |-> FALSE]
    ELSE LET row == TouchUpdatedAt(got.row, ApplyUpdates(got.row, update_dict), now)
         IN [store |-> [store EXCEPT ![document_id] = row], found |-> TRUE, row |-> row]

\* delete_document as it would be without the commit: the row stays
DbDeleteDocumentNoCommit(store, document_id, user_id) ==
    [ store |-> store,
      deleted |-> document_id \in DOMAIN store /\ store[document_id].user_id = user_id ]

\* DatabaseClient.delete_document: (store afterwards, rowcount > 0)
DbDeleteDocument(store, document_id, user_id) ==
    LET hit == { d \in DOMAIN store : d = document_id /\ store[d].user_id = user_id }
    IN [store |-> [d \in DOMAIN store \ hit |-> store[d]], deleted |-> hit # {}]

RECURSIVE IdsAscending(_)
\* the rows in the order the table yields them (insertion order)
IdsAscending(S) ==
    IF S = {} THEN << >>
    ELSE LET m == CHOOSE x \in S : \A y \in S : x <= y
         IN <<m>> \o IdsAscending(S \ {m})

\* list_documents as it would be if the count were taken from the page
DbListDocumentsPageCount(store, user_id, limit, offset, document_type) ==
    LET match == { d \in DOMAIN store :
                     /\ store[d].user_id = user_id
                     /\ (document_type # "" => store[d].document_type = document_type) }
        page == Take(Drop(IdsAscending(match), offset), limit)
    IN [ documents |-> [ i \in DOMAIN page |-> store[page[i]] ],
         total_count |-> Len(page) ]

\* DatabaseClient.list_documents: (page, total_count)
DbListDocuments(store, user_id, limit, offset, document_type) ==
    LET match == { d \in DOMAIN store :
                     /\ store[d].user_id = user_id
                     /\ (document_type # "" => store[d].document_type = document_type) }
        ordered == IdsAscending(match)
        page == Take(Drop(ordered, offset), limit)
    IN [ documents |-> [ i \in DOMAIN page |-> store[page[i]] ],
         total_count |-> Cardinality(match) ]

\* Document(...) as built by the manager from a row
ToDocument(row) ==
    [ document_id |-> row.document_id,
      user_id |-> row.user_id,
      title |-> row.title,
      content |-> row.content,
      document_type |-> row.document_type,
      tags |-> row.tags,
      metadata |-> row.doc_metadata,
      embedding_id |-> row.embedding_id,
      created_at |-> row.created_at,
      updated_at |-> row.updated_at ]

-----------------------------------------------------------------------------
(* VectorDBProvider: the vector index *)

\* upsert_vectors as it would be if a known id kept its first entry
UpsertVectorsKeepFirst(idx, vectors) ==
    [ e \in DOMAIN idx \cup { vectors[i].id : i \in DOMAIN vectors } |->
        IF e \in DOMAIN idx THEN idx[e]
        ELSE LET i == CHOOSE j \in DOMAIN vectors : vectors[j].id = e
             IN [ values |-> vectors[i].values,
                  content |-> vectors[i].content,
                  metadata |-> vectors[i].metadata ] ]

\* upsert_vectors: insert or overwrite by id
UpsertVectors(idx, vectors) ==
    [ e \in DOMAIN idx \cup { vectors[i].id : i \in DOMAIN vectors } |->
        IF \E i \in DOMAIN vectors : vectors[i].id = e
        THEN LET i == CHOOSE j \in DOMAIN vectors :
                        /\ vectors[j].id = e
                        /\ \A k \in DOMAIN vectors : vectors[k].id = e => k <= j
             IN [ values |-> vectors[i].values,
                  content |-> vectors[i].content,
                  metadata |-> vectors[i].metadata ]
        ELSE idx[e] ]

\* PineconeProvider.upsert_vectors: the content is stored inside the metadata
PineconeUpsertVectors(idx, vectors) ==
    [ e \in DOMAIN idx \cup { vectors[i].id : i \in DOMAIN vectors } |->
        IF \E i \in DOMAIN vectors : vectors[i].id = e
        THEN LET i == CHOOSE j \in DOMAIN vectors :
                        /\ vectors[j].id = e
                        /\ \A k \in DOMAIN vectors : vectors[k].id = e => k <= j
             IN [ values |-> vectors[i].values,
                  metadata |-> ("content" :> vectors[i].content) @@ vectors[i].metadata ]
        ELSE idx[e] ]

\* upsert_vectors of the provider in use
ProviderUpsertVectors(b, idx, vectors) ==
    IF b = "chroma" THEN UpsertVectors(idx, vectors) ELSE PineconeUpsertVectors(idx, vectors)

\* delete_vectors: remove the given ids (absent ids are ignored)
DeleteVectors(idx, vector_ids) ==
    [ e \in DOMAIN idx \ vector_ids |-> idx[e] ]

\* get_collection_count
CollectionCount(idx) == Cardinality(DOMAIN idx)

\* the where clause: every key of the filter equals the entry's attribute
MatchesFilter(metadata, filter) ==
    \A k \in DOMAIN filter : k \in DOMAIN metadata /\ metadata[k] = filter[k]

\* squared L2 distance of one-dimensional vectors
Distance(a, b) == (a - b) * (a - b)

\* similarity = max(0.0, min(1.0, 1.0 - distance / 2.0)), in thousandths
SimilarityScore(distance) == Max(0, Min(1000, 1000 - 500 * distance))

RECURSIVE Nearest(_, _, _)
\* the ids of S by increasing distance to the query (ties: by document id)
Nearest(idx, S, query_vector) ==
    IF S = {} THEN << >>
    ELSE LET Key(e) == <<Distance(idx[e].values, query_vector), e[2]>>
             m == CHOOSE x \in S : \A y \in S :
                      \/ Key(x)[1] < Key(y)[1]
                      \/ (Key(x)[1] = Key(y)[1] /\ Key(x)[2] <= Key(y)[2])
         IN <<m>> \o Nearest(idx, S \ {m}, query_vector)

\* search: the `limit` nearest entries passing the filter, as SearchResult
VectorSearch(idx, query_vector, limit, filter) ==
    LET match == { e \in DOMAIN idx : MatchesFilter(idx[e].metadata, filter) }
        hits == Take(Nearest(idx, match, query_vector), limit)
    IN [ i \in DOMAIN hits |->
           [ id |-> hits[i],
             score |-> SimilarityScore(Distance(idx[hits[i]].values, query_vector)),
             content |-> idx[hits[i]].content,
             metadata |-> idx[hits[i]].metadata ] ]

-----------------------------------------------------------------------------
(* SearchManager *)

SnippetLen == 200

RECURSIVE SplitComma(_)
\* s.split(",")
SplitComma(s) ==
    IF \A i \in DOMAIN s : s[i] # "," THEN <<s>>
    ELSE LET i == CHOOSE j \in DOMAIN s : s[j] = "," /\ \A k \in 1..(j - 1) : s[k] # ","
         IN <<SubSeq(s, 1, i - 1)>> \o SplitComma(SubSeq(s, i + 1, Len(s)))

RECURSIVE Strip(_)
\* s.strip()
Strip(s) ==
    IF s = << >> THEN s
    ELSE IF Head(s) = " " THEN Strip(Tail(s))
    ELSE IF s[Len(s)] = " " THEN Strip(SubSeq(s, 1, Len(s) - 1))
    ELSE s

RECURSIVE StripAll(_)
\* [t.strip() for t in parts if t.strip()]
StripAll(parts) ==
    IF parts = << >> THEN << >>
    ELSE (IF Strip(Head(parts)) # << >> THEN <<Strip(Head(parts))>> ELSE << >>)
         \o StripAll(Tail(parts))

\* [t.strip() for t in metadata.get("tags", "").split(",") if t.strip()]
ParseTags(joined) == StripAll(SplitComma(joined))

\* content[:200] + "..." if len(content) > 200 else content
Snippet(content) ==
    IF Len(content) > SnippetLen
    THEN Take(content, SnippetLen) \o <<".", ".", ".">>
    ELSE content

\* one formatted search result
FormatResult(result) ==
    [ document_id |-> result.metadata.document_id,
      title |-> result.metadata.title,
      document_type |-> result.metadata.document_type,
      tags |-> ParseTags(result.metadata.tags),
      score |-> result.score,
      snippet |-> Snippet(result.content) ]

RECURSIVE FilterByTags(_, _)
\* keep the hits one of whose stored tags is a requested tag
FilterByTags(results, tags) ==
    IF results = << >> THEN << >>
    ELSE (IF \E i \in DOMAIN tags :
                 tags[i] \in Range(ParseTags(Head(results).metadata.tags))
          THEN <<Head(results)>> ELSE << >>)
         \o FilterByTags(Tail(results), tags)

\* the filter as it would be without the owner scope
WhereFilterNoOwner(user_id, document_type) ==
    IF document_type # "" THEN ("document_type" :> document_type) ELSE << >>

\* where_filter = {"user_id": user_id} (+ document_type when given)
WhereFilter(user_id, document_type) ==
    IF document_type # ""
    THEN ("user_id" :> user_id) @@ ("document_type" :> document_type)
    ELSE ("user_id" :> user_id)

\* SearchManager.search as it would be if it asked the index for `limit` hits only
SearchFetchesLimit(idx, query, user_id, limit, document_type, tags) ==
    LET vector_results == VectorSearch(idx, GenerateEmbedding(query), limit,
                                       WhereFilter(user_id, document_type))
        filtered == IF tags # << >> THEN FilterByTags(vector_results, tags)
                    ELSE vector_results
        limited == Take(filtered, limit)
    IN [ i \in DOMAIN limited |-> FormatResult(limited[i]) ]

\* SearchManager.search, given a reachable backend
Search(idx, query, user_id, limit, document_type, tags) ==
    LET vector_results == VectorSearch(idx, GenerateEmbedding(query), limit * 2,
                                       WhereFilter(user_id, document_type))
        filtered == IF tags # << >> THEN FilterByTags(vector_results, tags)
                    ELSE vector_results
        limited == Take(filtered, limit)
    IN [ i \in DOMAIN limited |-> FormatResult(limited[i]) ]

RECURSIVE DropSourceKeepsAll(_, _)
\* the formatted hits, the source's own included
DropSourceKeepsAll(results, document_id) ==
    IF results = << >> THEN << >>
    ELSE <<FormatResult(Head(results))>> \o DropSourceKeepsAll(Tail(results), document_id)

RECURSIVE DropSource(_, _)
\* the formatted hits whose document_id is not the source's
DropSource(results, document_id) ==
    IF results = << >> THEN << >>
    ELSE (IF Head(results).metadata.document_id # document_id
          THEN <<FormatResult(Head(results))>> ELSE << >>)
         \o DropSource(Tail(results), document_id)

\* SearchManager.find_similar, given a reachable backend
FindSimilar(store, idx, document_id, user_id, limit) ==
    LET source_doc == DbGetDocument(store, document_id, user_id) IN
    IF ~source_doc.found THEN << >>
    ELSE LET query_embedding ==
                 GenerateEmbedding(CombinedText(source_doc.row.title, source_doc.row.content))
             vector_results == VectorSearch(idx, query_embedding, limit + 1,
                                            WhereFilter(user_id, ""))
         IN Take(DropSource(vector_results, document_id), limit)

-----------------------------------------------------------------------------
(* Unified search endpoint: keyword mode *)

KeywordScanLimit == 1000

LowerChar(c) == CASE c = "D" -> "d" [] c = "N" -> "n" [] c = "B" -> "b" [] OTHER -> c

\* s.lower()
Lower(s) == [ i \in DOMAIN s |-> LowerChar(s[i]) ]

\* needle in haystack
Contains(haystack, needle) ==
    \E i \in 0..(Len(haystack) - Len(needle)) :
        SubSeq(haystack, i + 1, i + Len(needle)) = needle

RECURSIVE KeywordFilterTitleOnly(_, _, _)
\* the filter as it would be if only the title were matched
KeywordFilterTitleOnly(docs, query_lower, tags) ==
    IF docs = << >> THEN << >>
    ELSE LET doc == Head(docs)
             hit == /\ Contains(Lower(doc.title), query_lower)
                    /\ (tags # << >> => \E i \in DOMAIN tags : tags[i] \in Range(doc.tags))
         IN (IF hit THEN <<doc>> ELSE << >>)
            \o KeywordFilterTitleOnly(Tail(docs), query_lower, tags)

RECURSIVE KeywordFilter(_, _, _)
\* the documents whose title or content holds the query, and one requested tag
KeywordFilter(docs, query_lower, tags) ==
    IF docs = << >> THEN << >>
    ELSE LET doc == Head(docs)
             hit == /\ \/ Contains(Lower(doc.title), query_lower)
                       \/ (doc.content # << >> /\ Contains(Lower(doc.content), query_lower))
                    /\ (tags # << >> => \E i \in DOMAIN tags : tags[i] \in Range(doc.tags))
         IN (IF hit THEN <<doc>> ELSE << >>) \o KeywordFilter(Tail(docs), query_lower, tags)

\* SearchResultItem of a keyword hit
KeywordItem(doc) ==
    [ document_id |-> doc.document_id,
      title |-> doc.title,
      document_type |-> IF doc.document_type # "" THEN doc.document_type ELSE "unknown",
      tags |-> doc.tags,
      score |-> 1000,
      snippet |-> Take(doc.content, SnippetLen) ]

\* search_documents, search_mode == "keyword"
KeywordSearch(store, query, user_id, limit, offset, document_type, tags) ==
    LET listed == DbListDocuments(store, user_id, KeywordScanLimit, 0, document_type)
        filtered == KeywordFilter(listed.documents, Lower(Strip(query)), tags)
        paginated == Take(Drop(filtered, offset), limit)
    IN [ i \in DOMAIN paginated |-> KeywordItem(ToDocument(paginated[i])) ]

-----------------------------------------------------------------------------
(* DocumentManager helpers *)

\* the record handed to upsert_vectors by create_document and update_document
VectorRecord(embedding_id, document_id, user_id, title, content, document_type, tags) ==
    [ id |-> embedding_id,
      values |-> GenerateEmbedding(CombinedText(title, content)),
      content |-> content,
      metadata |-> [ document_id |-> document_id,
                     user_id |-> user_id,
                     title |-> title,
                     document_type |-> document_type,
                     tags |-> JoinComma(tags) ] ]

\* update_dict: the patch's fields that are not None, under their column names
UpdateDict(updates) ==
    [ k \in { IF f = "metadata" THEN "doc_metadata" ELSE f : f \in DOMAIN updates } |->
        IF k = "doc_metadata" THEN updates["metadata"] ELSE updates[k] ]

\* "if updates.content is not None or updates.title is not None"
NeedsReindex(updates) ==
    "content" \in DOMAIN updates \/ "title" \in DOMAIN updates

-----------------------------------------------------------------------------
(* State *)

NoLoc == [none |-> TRUE]
NoOp == [kind |-> "none"]
NoRes == [status |-> "none yet"]

\* a provider object: the n-th one constructed, of the given class
Provider(n, type) == [id |-> n, type |-> type]

\* what startup leaves behind once lifespan has yielded: the factory has built the
\* provider the environment names, lifespan holds it, and the managers (if they are
\* set) were built with it
StartedUp(type, mgrs) ==
    /\ managers = mgrs
    /\ env = [VECTOR_DB_PROVIDER |-> type, PINECONE_API_KEY |-> (type = "pinecone")]
    /\ provider_instance = <<Provider(1, type)>>
    /\ vector_client = <<Provider(1, type)>>
    /\ manager_client = IF mgrs = "set" THEN <<Provider(1, type)>> ELSE << >>
    /\ created = 1
    /\ factoryCall = NoOp
    /\ first_provider = <<Provider(1, type)>>
    /\ resets = 0
    /\ init_attempts = 0
    /\ initialized = {1}

Init ==
    /\ db = << >>
    /\ index = << >>
    /\ managed_index = << >>
    /\ clock = 1
    /\ nextId = 0
    /\ pc = [p \in Procs |-> "idle"]
    /\ op = [p \in Procs |-> NoOp]
    /\ loc = [p \in Procs |-> NoLoc]
    /\ res = [p \in Procs |-> NoRes]
    /\ calls = [p \in Procs |-> << >>]
    /\ creator = << >>
    /\ deletedIds = {}
    /\ backend = "chroma"
    /\ provCall = NoOp
    /\ search_results = << >>
    /\ upserts = << >>
    /\ jobs = << >>
    /\ cleanup_task = "none"
    /\ detached = 0
    /\ jobCall = NoOp
    /\ terminal_since = << >>
    /\ lifespan = "running"
    /\ search_history = << >>
    /\ query_counts = << >>
    /\ search_results_count = << >>
    /\ analyticsCall = NoOp
    /\ arrivals = << >>
    /\ StartedUp("chroma", "set")

\* a call may start in slot p
CanStart(p) == pc[p] = "idle"

\* a call that may write to the metadata store may start in slot p
CanStartWrite(p) == CanStart(p) /\ clock < MaxClock

\* the call in slot p returns `result` (or raises, when its status is "error")
Return(p, result) ==
    /\ pc' = [pc EXCEPT ![p] = "done"]
    /\ res' = [res EXCEPT ![p] = result]
    /\ UNCHANGED loc

Issue(p, call) == calls' = [calls EXCEPT ![p] = Append(calls[p], call)]

-----------------------------------------------------------------------------
(* DocumentManager.create_document *)

\* create_document as it would be with the two writes swapped: the vector entry is
\* upserted before the metadata row is committed
CreateDocumentVectorFirst(p, user_id, doc_data) ==
    /\ CanStartWrite(p)
    /\ nextId < MaxDocs
    /\ \E tick \in {0, 1} :
         LET document_id == nextId + 1
             db_doc == DocumentModel(document_id, user_id, doc_data, clock, clock + tick)
         IN /\ db' = DbCreateDocument(db, db_doc)
            /\ index' = UpsertVectors(index,
                          << VectorRecord(db_doc.embedding_id, document_id, user_id,
                                          doc_data.title, doc_data.content,
                                          doc_data.document_type, doc_data.tags) >>)
            /\ clock' = clock + tick + 1
            /\ nextId' = document_id
            /\ creator' = (document_id :> user_id) @@ creator
            /\ op' = [op EXCEPT ![p] = [kind |-> "create", user_id |-> user_id,
                                         doc_data |-> doc_data]]
            /\ loc' = [loc EXCEPT ![p] = [created_doc |-> db_doc]]
    /\ pc' = [pc EXCEPT ![p] = "create_upsert"]
    /\ calls' = [calls EXCEPT ![p] = <<"db.create_document">>]
    /\ UNCHANGED <<res, deletedIds, aside, jobVars, analytics, startup>>

\* ids, embedding, DocumentModel(... created_at=now(), updated_at=now()), then
\* await db.create_document: the clock may tick between the two reads
CreateDocument(p, user_id, doc_data) ==
    /\ CanStartWrite(p)
    /\ nextId < MaxDocs
    /\ \E tick \in {0, 1} :
         LET document_id == nextId + 1
             db_doc == DocumentModel(document_id, user_id, doc_data, clock, clock + tick)
         IN /\ db' = DbCreateDocument(db, db_doc)
            /\ clock' = clock + tick + 1
            /\ nextId' = document_id
            /\ creator' = (document_id :> user_id) @@ creator
            /\ op' = [op EXCEPT ![p] = [kind |-> "create", user_id |-> user_id,
                                         doc_data |-> doc_data]]
            /\ loc' = [loc EXCEPT ![p] = [created_doc |-> db_doc]]
    /\ pc' = [pc EXCEPT ![p] = "create_upsert"]
    /\ calls' = [calls EXCEPT ![p] = <<"db.create_document">>]
    /\ UNCHANGED <<index, res, deletedIds, aside, jobVars, analytics, startup>>

\* await vector_db.upsert_vectors(...); return Document(created_doc)
CreateUpsert(p) ==
    /\ pc[p] = "create_upsert"
    /\ LET doc_data == op[p].doc_data
           created_doc == loc[p].created_doc
       IN /\ index' = ProviderUpsertVectors(backend, index,
                        << VectorRecord(created_doc.embedding_id, created_doc.document_id,
                                        op[p].user_id, doc_data.title, doc_data.content,
                                        doc_data.document_type, doc_data.tags) >>)
          /\ Return(p, [status |-> "ok", document |-> ToDocument(created_doc)])
    /\ Issue(p, "vector_db.upsert_vectors")
    /\ UNCHANGED <<db, clock, nextId, op, creator, deletedIds, aside, jobVars, analytics, startup>>

\* upsert_vectors raises: the exception leaves create_document
CreateUpsertFails(p) ==
    /\ pc[p] = "create_upsert"
    /\ Return(p, [status |-> "error"])
    /\ Issue(p, "vector_db.upsert_vectors")
    /\ UNCHANGED <<db, index, clock, nextId, op, creator, deletedIds, aside, jobVars, analytics, startup>>

-----------------------------------------------------------------------------
(* DocumentManager.update_document *)

\* current_doc = await db.get_document(...); if not current_doc: return None
UpdateDocument(p, document_id, user_id, updates) ==
    /\ CanStartWrite(p)
    /\ op' = [op EXCEPT ![p] = [kind |-> "update", document_id |-> document_id,
                                 user_id |-> user_id, updates |-> updates]]
    /\ calls' = [calls EXCEPT ![p] = <<"db.get_document">>]
    /\ LET current_doc == DbGetDocument(db, document_id, user_id) IN
       IF ~current_doc.found
       THEN Return(p, [status |-> "none"])
       ELSE /\ pc' = [pc EXCEPT ![p] = "update_db"]
            /\ loc' = [loc EXCEPT ![p] = [current_doc |-> current_doc.row]]
            /\ UNCHANGED res
    /\ UNCHANGED <<db, index, clock, nextId, creator, deletedIds, aside, jobVars, analytics, startup>>

\* updated_doc = await db.update_document(document_id, user_id, **update_dict)
UpdateDb(p) ==
    /\ pc[p] = "update_db"
    /\ LET updated == DbUpdateDocument(db, op[p].document_id, op[p].user_id,
                                       UpdateDict(op[p].updates), clock)
       IN /\ db' = updated.store
          /\ IF ~updated.found
             THEN Return(p, [status |-> "none"])
             ELSE IF NeedsReindex(op[p].updates)
             THEN /\ pc' = [pc EXCEPT ![p] = "update_upsert"]
                  /\ loc' = [loc EXCEPT ![p] = [current_doc |-> loc[p].current_doc,
                                                 updated_doc |-> updated.row]]
                  /\ UNCHANGED res
             ELSE Return(p, [status |-> "ok", document |-> ToDocument(updated.row)])
    /\ clock' = clock + 1
    /\ Issue(p, "db.update_document")
    /\ UNCHANGED <<index, nextId, op, creator, deletedIds, aside, jobVars, analytics, startup>>

\* re-indexing as delete + insert under a new vector id
UpdateUpsertReinsert(p) ==
    /\ pc[p] = "update_upsert"
    /\ LET updated_doc == loc[p].updated_doc
       IN /\ index' = UpsertVectors(DeleteVectors(index, {updated_doc.embedding_id}),
                        << VectorRecord(<<"emb", op[p].document_id, clock>>,
                                        op[p].document_id,
                                        op[p].user_id, updated_doc.title, updated_doc.content,
                                        updated_doc.document_type, updated_doc.tags) >>)
          /\ Return(p, [status |-> "ok", document |-> ToDocument(updated_doc)])
    /\ Issue(p, "vector_db.upsert_vectors")
    /\ UNCHANGED <<db, clock, nextId, op, creator, deletedIds, aside, jobVars, analytics, startup>>

\* await vector_db.upsert_vectors(... id = updated_doc.embedding_id ...)
UpdateUpsert(p) ==
    /\ pc[p] = "update_upsert"
    /\ LET updated_doc == loc[p].updated_doc
       IN /\ index' = UpsertVectors(index,
                        << VectorRecord(updated_doc.embedding_id, op[p].document_id,
                                        op[p].user_id, updated_doc.title, updated_doc.content,
                                        updated_doc.document_type, updated_doc.tags) >>)
          /\ Return(p, [status |-> "ok", document |-> ToDocument(updated_doc)])
    /\ Issue(p, "vector_db.upsert_vectors")
    /\ UNCHANGED <<db, clock, nextId, op, creator, deletedIds, aside, jobVars, analytics, startup>>

\* upsert_vectors raises: the exception leaves update_document
UpdateUpsertFails(p) ==
    /\ pc[p] = "update_upsert"
    /\ Return(p, [status |-> "error"])
    /\ Issue(p, "vector_db.upsert_vectors")
    /\ UNCHANGED <<db, index, clock, nextId, op, creator, deletedIds, aside, jobVars, analytics, startup>>

-----------------------------------------------------------------------------
(* DocumentManager.delete_document *)

\* doc = await db.get_document(...); if not doc: return False
DeleteDocument(p, document_id, user_id) ==
    /\ CanStartWrite(p)
    /\ op' = [op EXCEPT ![p] = [kind |-> "delete", document_id |-> document_id,
                                 user_id |-> user_id]]
    /\ calls' = [calls EXCEPT ![p] = <<"db.get_document">>]
    /\ LET doc == DbGetDocument(db, document_id, user_id) IN
       IF ~doc.found
       THEN Return(p, [status |-> "ok", deleted |-> FALSE])
       ELSE /\ pc' = [pc EXCEPT ![p] = "delete_vectors"]
            /\ loc' = [loc EXCEPT ![p] = [doc |-> doc.row]]
            /\ UNCHANGED res
    /\ UNCHANGED <<db, index, clock, nextId, creator, deletedIds, aside, jobVars, analytics, startup>>

\* await vector_db.delete_vectors(vector_ids=[doc.embedding_id])
DeleteVectorsStep(p) ==
    /\ pc[p] = "delete_vectors"
    /\ index' = DeleteVectors(index, {loc[p].doc.embedding_id})
    /\ pc' = [pc EXCEPT ![p] = "delete_db"]
    /\ Issue(p, "vector_db.delete_vectors")
    /\ UNCHANGED <<db, clock, nextId, op, loc, res, creator, deletedIds, aside, jobVars, analytics, startup>>

\* delete_document as it would be if it caught the vector error and went on
DeleteVectorsFailsSwallowed(p) ==
    /\ pc[p] = "delete_vectors"
    /\ pc' = [pc EXCEPT ![p] = "delete_db"]
    /\ Issue(p, "vector_db.delete_vectors")
    /\ UNCHANGED <<db, index, clock, nextId, op, loc, res, creator, deletedIds, aside, jobVars, analytics, startup>>

\* delete_vectors raises: the exception leaves delete_document
DeleteVectorsFails(p) ==
    /\ pc[p] = "delete_vectors"
    /\ Return(p, [status |-> "error"])
    /\ Issue(p, "vector_db.delete_vectors")
    /\ UNCHANGED <<db, index, clock, nextId, op, creator, deletedIds, aside, jobVars, analytics, startup>>

\* deleted = await db.delete_document(document_id, user_id); return deleted
DeleteDb(p) ==
    /\ pc[p] = "delete_db"
    /\ LET deleted == DbDeleteDocument(db, op[p].document_id, op[p].user_id)
       IN /\ db' = deleted.store
          /\ Return(p, [status |-> "ok", deleted |-> deleted.deleted])
          /\ deletedIds' = IF deleted.deleted THEN deletedIds \cup {op[p].document_id}
                           ELSE deletedIds
    /\ clock' = clock + 1
    /\ Issue(p, "db.delete_document")
    /\ UNCHANGED <<index, nextId, op, creator, aside, jobVars, analytics, startup>>

-----------------------------------------------------------------------------
(* Reads *)

\* a read call: one store round trip, then the result
ReadCall(p, call, store_call, result) ==
    /\ CanStart(p)
    /\ op' = [op EXCEPT ![p] = call]
    /\ Return(p, result)
    /\ calls' = [calls EXCEPT ![p] = <<store_call>>]
    /\ UNCHANGED <<db, index, clock, nextId, creator, deletedIds, aside, jobVars, analytics, startup>>

\* what DocumentManager.get_document returns: the Document, or None
GetDocumentResult(store, document_id, user_id) ==
    LET db_doc == DbGetDocument(store, document_id, user_id) IN
    IF db_doc.found THEN [status |-> "ok", document |-> ToDocument(db_doc.row)]
    ELSE [status |-> "none"]

\* DocumentManager.get_document
GetDocument(p, document_id, user_id) ==
    ReadCall(p, [kind |-> "get", document_id |-> document_id, user_id |-> user_id],
             "db.get_document", GetDocumentResult(db, document_id, user_id))

\* DocumentManager.list_documents
ListDocuments(p, user_id, limit, offset, document_type) ==
    LET listed == DbListDocuments(db, user_id, limit, offset, document_type) IN
    ReadCall(p, [kind |-> "list", user_id |-> user_id, limit |-> limit,
                 offset |-> offset, document_type |-> document_type],
             "db.list_documents",
             [status |-> "ok",
              documents |-> [ i \in DOMAIN listed.documents |->
                                ToDocument(listed.documents[i]) ],
              total_count |-> listed.total_count])

\* SearchManager.search
SearchDocuments(p, query, user_id, limit, document_type, tags) ==
    ReadCall(p, [kind |-> "search", query |-> query, user_id |-> user_id, limit |-> limit,
                 document_type |-> document_type, tags |-> tags],
             "vector_db.search",
             [status |-> "ok",
              results |-> Search(index, query, user_id, limit, document_type, tags)])

\* SearchManager.find_similar
FindSimilarDocuments(p, document_id, user_id, limit) ==
    ReadCall(p, [kind |-> "find_similar", document_id |-> document_id,
                 user_id |-> user_id, limit |-> limit],
             "vector_db.search",
             [status |-> "ok",
              results |-> FindSimilar(db, index, document_id, user_id, limit)])

\* search_documents with search_mode == "keyword"
KeywordSearchDocuments(p, query, user_id, limit, offset, document_type, tags) ==
    ReadCall(p, [kind |-> "keyword", query |-> query, user_id |-> user_id, limit |-> limit,
                 offset |-> offset, document_type |-> document_type, tags |-> tags],
             "db.list_documents",
             [status |-> "ok",
              results |-> KeywordSearch(db, query, user_id, limit, offset,
                                        document_type, tags)])

\* the response leaves the service: the slot is free for the next request
Respond(p) ==
    /\ pc[p] = "done"
    /\ pc' = [pc EXCEPT ![p] = "idle"]
    /\ op' = [op EXCEPT ![p] = NoOp]
    /\ loc' = [loc EXCEPT ![p] = NoLoc]
    /\ res' = [res EXCEPT ![p] = NoRes]
    /\ calls' = [calls EXCEPT ![p] = << >>]
    /\ UNCHANGED <<db, index, clock, nextId, creator, deletedIds, aside, jobVars, analytics, startup>>

-----------------------------------------------------------------------------
(* Specifications *)

\* list_documents arguments: limit, offset, document_type (None is "")
ListRequests ==
    { [limit |-> 1, offset |-> 0, document_type |-> ""],
      [limit |-> 1, offset |-> 1, document_type |-> ""],
      [limit |-> 2, offset |-> 0, document_type |-> "guide"] }

\* SearchRequest bodies: query, limit, document_type (None is ""), tags (None is << >>)
SearchRequests ==
    { [query |-> TitleA, limit |-> 1, document_type |-> "", tags |-> << >>],
      [query |-> ContentY, limit |-> 2, document_type |-> "", tags |-> <<TagDb>>],
      [query |-> ContentY, limit |-> 1, document_type |-> "guide", tags |-> << >>] }

\* UnifiedSearchRequest bodies with search_mode == "keyword"
KeywordRequests ==
    { [query |-> <<"D", "B">>, limit |-> 2, offset |-> 0, document_type |-> "",
       tags |-> << >>],
      [query |-> <<" ", "n", "e", "t">>, limit |-> 1, offset |-> 0, document_type |-> "",
       tags |-> <<TagNet>>],
      [query |-> <<"e">>, limit |-> 1, offset |-> 1, document_type |-> "guide",
       tags |-> << >>] }

Writes(p) ==
    \/ \E u \in Users, d \in Drafts : CreateDocument(p, u, d)
    \/ CreateUpsert(p)
    \/ \E i \in DocIds, u \in Users, u2 \in Patches : UpdateDocument(p, i, u, u2)
    \/ UpdateDb(p)
    \/ UpdateUpsert(p)
    \/ \E i \in DocIds, u \in Users : DeleteDocument(p, i, u)
    \/ DeleteVectorsStep(p)
    \/ DeleteDb(p)

Failures(p) ==
    \/ CreateUpsertFails(p)
    \/ UpdateUpsertFails(p)
    \/ DeleteVectorsFails(p)

Reads(p) ==
    \/ \E i \in DocIds, u \in Users : GetDocument(p, i, u)
    \/ \E u \in Users, r \in ListRequests :
           ListDocuments(p, u, r.limit, r.offset, r.document_type)
    \/ \E u \in Users, r \in SearchRequests :
           SearchDocuments(p, r.query, u, r.limit, r.document_type, r.tags)
    \/ \E i \in DocIds, u \in Users : FindSimilarDocuments(p, i, u, 1)
    \/ \E u \in Users, r \in KeywordRequests :
           KeywordSearchDocuments(p, r.query, u, r.limit, r.offset, r.document_type, r.tags)

\* one request at a time; the vector backend may fail any write
Next == \E p \in Serial : Writes(p) \/ Failures(p) \/ Reads(p) \/ Respond(p)

Spec == Init /\ [][Next]_vars

\* one request at a time, no backend failure
NextNoFail == \E p \in Serial : Writes(p) \/ Reads(p) \/ Respond(p)

SpecNoFail == Init /\ [][NextNoFail]_vars

-----------------------------------------------------------------------------
(* Helpers of the properties *)

\* no call is suspended between two store round trips
Quiescent == \A p \in Procs : pc[p] \in {"idle", "done"}

\* slot p holds a completed call of the given kind
Done(p, kind) == pc[p] = "done" /\ op[p].kind = kind

\* the document ids of a sequence of results or documents
ResultIds(items) == { items[i].document_id : i \in DOMAIN items }

\* every document of the owner, as list returns them with no type filter
AllListed(store, user_id) ==
    DbListDocuments(store, user_id, Cardinality(DOMAIN store), 0, "").documents

\* the row's vector entry exists and mirrors owner, type, tags and content
Mirrored(row) ==
    /\ row.embedding_id \in DOMAIN index
    /\ LET entry == index[row.embedding_id]
       IN /\ entry.metadata.user_id = row.user_id
          /\ entry.metadata.document_type = row.document_type
          /\ entry.metadata.tags = JoinComma(row.tags)
          /\ entry.content = row.content

-----------------------------------------------------------------------------
(* C1 *)

\* C1: with no backend failure and one call at a time, after each create, update
\* or delete call every metadata row has its vector entry under its embedding_id,
\* and the entry's owner, type, tags and content are the row's - also after an
\* update whose patch changes only tags or type.
C1_MirrorAfterEachCall ==
    Quiescent => \A d \in DOMAIN db : Mirrored(db[d])

-----------------------------------------------------------------------------
(* C2 *)

\* the document of the create call in slot p
CreatedId(p) == loc[p].created_doc.document_id

\* C2: create_document writes the metadata row before it upserts the vector
\* entry; when the upsert fails, the call reports the failure, get and list still
\* return the document to its owner, and no search or find_similar result holds it.
C2_CreateGap ==
    \A p \in Procs :
        /\ pc[p] = "create_upsert" =>
              /\ calls[p] = <<"db.create_document">>
              /\ CreatedId(p) \in DOMAIN db
              /\ loc[p].created_doc.embedding_id \notin DOMAIN index
        /\ (Done(p, "create") /\ res[p].status = "error") =>
              /\ calls[p] = <<"db.create_document", "vector_db.upsert_vectors">>
              /\ LET got == DbGetDocument(db, CreatedId(p), op[p].user_id)
                 IN got.found /\ got.row = loc[p].created_doc
              /\ CreatedId(p) \in ResultIds(AllListed(db, op[p].user_id))
              /\ \A u \in Users, r \in SearchRequests :
                     CreatedId(p) \notin
                         ResultIds(Search(index, r.query, u, r.limit, r.document_type, r.tags))
              /\ \A u \in Users, d \in DocIds, l \in 1..MaxDocs :
                     CreatedId(p) \notin ResultIds(FindSimilar(db, index, d, u, l))

\* a create call whose vector upsert failed has returned
C2_Witness ==
    \E p \in Procs : Done(p, "create") /\ res[p].status = "error"

-----------------------------------------------------------------------------
(* C3 *)

\* C3: delete_document deletes from the vector index before it deletes the
\* metadata row; when the vector delete fails the metadata delete is never
\* issued, the error propagates and get still returns the document.
C3_DeleteOrder ==
    \A p \in Procs :
        op[p].kind = "delete" =>
            /\ pc[p] = "delete_db" =>
                  /\ calls[p] = <<"db.get_document", "vector_db.delete_vectors">>
                  /\ loc[p].doc.embedding_id \notin DOMAIN index
            /\ (\E i \in DOMAIN calls[p] : calls[p][i] = "db.delete_document") =>
                  calls[p] = <<"db.get_document", "vector_db.delete_vectors",
                               "db.delete_document">>
            /\ (pc[p] = "done" /\ res[p].status = "error") =>
                  /\ calls[p] = <<"db.get_document", "vector_db.delete_vectors">>
                  /\ DbGetDocument(db, op[p].document_id, op[p].user_id).found
                  /\ DbGetDocument(db, op[p].document_id, op[p].user_id).row = loc[p].doc

\* a delete call whose vector delete failed has returned
C3_Witness ==
    \E p \in Procs : Done(p, "delete") /\ res[p].status = "error"

-----------------------------------------------------------------------------
(* C4 *)

\* every document whose delete returned true is NotFound for every owner
C4_GoneAfterDelete ==
    \A d \in deletedIds, u \in Users : GetDocumentResult(db, d, u) = [status |-> "none"]

\* a delete call that starts on an id whose delete has returned true returns
\* false at once, and changes neither store
C4_FurtherDelete ==
    \A p \in Procs :
        (pc[p] = "idle" /\ op'[p].kind = "delete" /\ op'[p].document_id \in deletedIds) =>
            /\ pc'[p] = "done"
            /\ res'[p] = [status |-> "ok", deleted |-> FALSE]
            /\ db' = db
            /\ index' = index

\* C4: once delete(id, owner) has returned true, get(id, owner) returns NotFound
\* and every further delete(id, owner) returns false without raising and without
\* changing the metadata store or the vector index.
C4_DeleteIdempotent ==
    [][C4_GoneAfterDelete' /\ C4_FurtherDelete]_vars

\* a further delete of a deleted document has returned false
C4_Witness ==
    \E p \in Procs :
        /\ Done(p, "delete")
        /\ op[p].document_id \in deletedIds
        /\ res[p] = [status |-> "ok", deleted |-> FALSE]

-----------------------------------------------------------------------------
(* C5 *)

\* C5: a document fetched by its owner right after its creation equals the
\* created document in every field, and its created_at equals its updated_at.
C5_FetchEqualsCreated ==
    \A p \in Procs :
        (Done(p, "create") /\ res[p].status = "ok") =>
            /\ GetDocumentResult(db, res[p].document.document_id, op[p].user_id) = res[p]
            /\ res[p].document.created_at = res[p].document.updated_at

-----------------------------------------------------------------------------
(* C6 *)

\* the update call in slot p has succeeded and its patch changed the title
TitleChanged(p) ==
    /\ Done(p, "update")
    /\ res[p].status = "ok"
    /\ "title" \in DOMAIN op[p].updates
    /\ op[p].updates["title"] # loc[p].current_doc.title

\* C6: after a successful update that changes the title, get by the owner
\* returns the new title and updated_at > created_at, and list for the owner
\* holds the document exactly once.
C6_TitleUpdate ==
    \A p \in Procs :
        TitleChanged(p) =>
            LET got == GetDocumentResult(db, op[p].document_id, op[p].user_id)
                listed == AllListed(db, op[p].user_id)
            IN /\ got.status = "ok"
               /\ got.document.title = op[p].updates["title"]
               /\ got.document.updated_at > got.document.created_at
               /\ Cardinality({ i \in DOMAIN listed :
                                  listed[i].document_id = op[p].document_id }) = 1
               /\ DbListDocuments(db, op[p].user_id, 1, 0, "").total_count = Len(listed)

\* a successful, title-changing update of a document created within one clock
\* reading (created_at = updated_at before the update)
C6_Witness ==
    \E p \in Procs :
        /\ TitleChanged(p)
        /\ loc[p].current_doc.created_at = loc[p].current_doc.updated_at

-----------------------------------------------------------------------------
(* C7 *)

\* this step is taken by an update call in slot p
UpdateStep(p) == op'[p].kind = "update" /\ pc'[p] # pc[p]

\* the step keeps the set of rows, every row but the target's, and the target's
\* columns named in `kept`
FrameOfUpdate(p, kept) ==
    /\ DOMAIN db' = DOMAIN db
    /\ \A d \in DOMAIN db :
           IF d = op'[p].document_id
           THEN \A col \in kept \ DOMAIN UpdateDict(op'[p].updates) :
                    db'[d][col] = db[d][col]
           ELSE db'[d] = db[d]

Columns ==
    {"document_id", "user_id", "title", "content", "document_type", "tags",
     "doc_metadata", "embedding_id", "created_at", "updated_at"}

\* C7 as stated: an update changes only the fields present in the patch; every
\* other field of the document (updated_at among them), and every other
\* document, keeps its value.
C7_OnlyPatchedFields ==
    [][\A p \in Procs : UpdateStep(p) => FrameOfUpdate(p, Columns)]_vars

\* C7, amended: an update changes only the fields present in the patch and
\* updated_at, which never moves back; document_id, user_id, embedding_id and
\* created_at never change, and no other document changes.
C7_OnlyPatchedFieldsAndUpdatedAt ==
    [][\A p \in Procs :
          UpdateStep(p) =>
              /\ FrameOfUpdate(p, Columns \ {"updated_at"})
              /\ \A d \in DOMAIN db : db'[d].updated_at >= db[d].updated_at]_vars

\* an update has changed its document while another document exists
C7_Witness ==
    \E p \in Procs :
        /\ Done(p, "update")
        /\ res[p].status = "ok"
        /\ db[op[p].document_id] # loc[p].current_doc
        /\ \E d \in DOMAIN db : d # op[p].document_id

-----------------------------------------------------------------------------
(* C8 *)

\* C8 as stated: no step of an update call changes the number of entries of
\* the vector index.
C8_UpdateKeepsCount ==
    [][\A p \in Procs : UpdateStep(p) => CollectionCount(index') = CollectionCount(index)]_vars

\* C8, amended: an update never removes an entry and never touches an entry of
\* another document; a patch that carries title or content upserts the entry under
\* the document's own embedding_id (overwriting it when the index holds it, adding
\* it when the create's upsert had failed), and a patch with neither leaves the
\* index untouched.
C8_UpdateUpsertsOwnEntry ==
    [][\A p \in Procs :
          UpdateStep(p) =>
              LET e == EmbeddingId(op'[p].document_id)
                  reindex == {"title", "content"} \cap DOMAIN op'[p].updates # {}
              IN /\ DOMAIN index \subseteq DOMAIN index'
                 /\ DOMAIN index' \subseteq DOMAIN index \cup {e}
                 /\ \A x \in DOMAIN index \ {e} : index'[x] = index[x]
                 /\ CollectionCount(index') =
                        CollectionCount(index) + (IF e \in DOMAIN index' \ DOMAIN index
                                                  THEN 1 ELSE 0)
                 /\ ~reindex => index' = index
                 /\ (reindex /\ pc[p] = "update_upsert" /\ res'[p].status = "ok") =>
                        /\ e \in DOMAIN index'
                        /\ index'[e].content = db[op'[p].document_id].content
                        /\ index'[e].metadata.title = db[op'[p].document_id].title]_vars

\* an update with a title or content patch has overwritten an existing entry
C8_Witness ==
    \E p \in Procs :
        /\ Done(p, "update")
        /\ res[p].status = "ok"
        /\ {"title", "content"} \cap DOMAIN op[p].updates # {}
        /\ calls[p] = <<"db.get_document", "db.update_document", "vector_db.upsert_vectors">>
        /\ CollectionCount(index) = Cardinality(DOMAIN db)
        /\ Cardinality(DOMAIN db) >= 2

-----------------------------------------------------------------------------
(* C9 *)

\* what update_document returns on `store` when the vector backend does not fail
UpdateDocumentResult(store, document_id, user_id, updates, now) ==
    IF ~DbGetDocument(store, document_id, user_id).found THEN [status |-> "none"]
    ELSE LET updated == DbUpdateDocument(store, document_id, user_id,
                                         UpdateDict(updates), now)
         IN IF updated.found THEN [status |-> "ok", document |-> ToDocument(updated.row)]
            ELSE [status |-> "none"]

\* what delete_document returns on `store` when the vector backend does not fail
DeleteDocumentResult(store, document_id, user_id) ==
    IF ~DbGetDocument(store, document_id, user_id).found
    THEN [status |-> "ok", deleted |-> FALSE]
    ELSE [status |-> "ok",
          deleted |-> DbDeleteDocument(store, document_id, user_id).deleted]

\* the metadata store without the rows in `hidden`
Without(store, hidden) == [ d \in DOMAIN store \ hidden |-> store[d] ]

\* the rows of owners other than user_id
OthersRows(store, user_id) == { d \in DOMAIN store : store[d].user_id # user_id }

\* what the calls return to user_id does not depend on the rows of other owners
SameWithoutOthers(user_id) ==
    \A hidden \in SUBSET OthersRows(db, user_id) :
        LET other == Without(db, hidden) IN
        \A d \in DocIds :
            /\ GetDocumentResult(db, d, user_id) = GetDocumentResult(other, d, user_id)
            /\ DeleteDocumentResult(db, d, user_id) = DeleteDocumentResult(other, d, user_id)
            /\ \A u \in Patches :
                   UpdateDocumentResult(db, d, user_id, u, clock)
                       = UpdateDocumentResult(other, d, user_id, u, clock)

\* the NotFound outcome of a call of the given kind
NotFound(kind) ==
    IF kind = "delete" THEN [status |-> "ok", deleted |-> FALSE] ELSE [status |-> "none"]

\* C9: get (and update, delete) answer an owner as if the documents of other
\* owners did not exist: the result is the same in every store that differs only
\* in other owners' documents, and a call on another owner's id ends NotFound
\* exactly like a call on an absent id.
C9_NoExistenceDisclosure ==
    /\ (\A p \in Procs : pc[p] = "idle") => \A u \in Users : SameWithoutOthers(u)
    /\ \A p \in Procs :
           ( /\ pc[p] = "done"
             /\ op[p].kind \in {"get", "update", "delete"}
             /\ op[p].document_id \in OthersRows(db, op[p].user_id) ) =>
               /\ res[p] = NotFound(op[p].kind)
               /\ calls[p] = <<"db.get_document">>

\* a get on a document of another owner has returned NotFound
C9_Witness ==
    \E p \in Procs :
        /\ Done(p, "get")
        /\ op[p].document_id \in OthersRows(db, op[p].user_id)
        /\ res[p] = [status |-> "none"]

-----------------------------------------------------------------------------
(* C10 *)

\* the document was created by user_id
OwnedBy(document_id, user_id) ==
    document_id \in DOMAIN creator /\ creator[document_id] = user_id

\* C10: every document that list, semantic search, keyword search or
\* find_similar returns to an owner was created by that owner.
C10_ResultsAreOwned ==
    \A p \in Procs :
        pc[p] = "done" =>
            /\ op[p].kind = "list" =>
                   \A i \in DOMAIN res[p].documents :
                       /\ res[p].documents[i].user_id = op[p].user_id
                       /\ OwnedBy(res[p].documents[i].document_id, op[p].user_id)
            /\ op[p].kind \in {"search", "find_similar", "keyword"} =>
                   \A d \in ResultIds(res[p].results) : OwnedBy(d, op[p].user_id)

\* a semantic search has returned a document while the index also holds an
\* entry of another owner
C10_Witness ==
    \E p \in Procs :
        /\ Done(p, "search")
        /\ res[p].results # << >>
        /\ \E e \in DOMAIN index : index[e].metadata.user_id # op[p].user_id

-----------------------------------------------------------------------------
(* C11 *)

\* the page sizes k the pagination is checked for
PageSizes == 1..(MaxDocs + 1)

\* the type filters a list may carry (None is "")
TypeFilters == {"", "guide", "faq"}

\* the owner's documents that match the type filter
Matching(store, user_id, document_type) ==
    { d \in DOMAIN store :
        /\ store[d].user_id = user_id
        /\ (document_type # "" => store[d].document_type = document_type) }

\* the document ids of page j (offset j * k) of list(owner, limit = k)
PageIds(store, user_id, k, j, document_type) ==
    LET page == DbListDocuments(store, user_id, k, j * k, document_type).documents
    IN [ i \in DOMAIN page |-> page[i].document_id ]

RECURSIVE ConcatPages(_, _, _, _, _, _)
\* pages j, j + 1, ... up to the page that starts at or after n, concatenated
ConcatPages(store, user_id, k, j, document_type, n) ==
    IF j * k >= n THEN << >>
    ELSE PageIds(store, user_id, k, j, document_type)
             \o ConcatPages(store, user_id, k, j + 1, document_type, n)

\* the pages of size k cover the matching set once each and all report its size
PagesCover(store, user_id, k, document_type) ==
    LET match == Matching(store, user_id, document_type)
        n == Cardinality(match)
        all == ConcatPages(store, user_id, k, 0, document_type, n)
    IN /\ Len(all) = n
       /\ Range(all) = match
       /\ \A j \in 0..n :
              DbListDocuments(store, user_id, k, j * k, document_type).total_count = n

\* C11: with no write in between, the pages list(owner, limit = k, offset = 0, k,
\* 2k, ...) together hold each of the owner's matching documents exactly once,
\* and every page (also under a type filter) reports total_count = N; the list
\* call returns exactly such a page.
C11_PagesCoverAll ==
    /\ (\A p \in Procs : pc[p] = "idle") =>
           \A u \in Users, k \in PageSizes, t \in TypeFilters : PagesCover(db, u, k, t)
    /\ \A p \in Procs :
           Done(p, "list") =>
               LET match == Matching(db, op[p].user_id, op[p].document_type) IN
               /\ res[p].total_count = Cardinality(match)
               /\ ResultIds(res[p].documents) \subseteq match
               /\ Len(res[p].documents) =
                      Min(op[p].limit, Max(0, Cardinality(match) - op[p].offset))

\* a second page of size 1 was returned to an owner of two documents
C11_Witness ==
    \E p \in Procs :
        /\ Done(p, "list")
        /\ op[p].offset = 1 /\ op[p].limit = 1
        /\ res[p].total_count = 2
        /\ Len(res[p].documents) = 1

-----------------------------------------------------------------------------
(* VectorDBProvider driven directly: ChromaLocalProvider and PineconeProvider *)

Backends == {"chroma", "pinecone"}

\* one-dimensional embeddings handed to the provider
Vectors == {-2, -1, 1}

\* the vector ids handed to the provider
VectorIds == {EmbeddingId(1), EmbeddingId(2)}

\* the metadata handed to the provider
Metadatas == { [user_id |-> u] : u \in Users }

\* the filters handed to search (None is << >>)
Filters == { << >> } \cup { [user_id |-> u] : u \in Users }

\* cosine similarity of one-dimensional vectors, in thousandths
Cosine(a, b) == IF a * b > 0 THEN 1000 ELSE IF a * b < 0 THEN -1000 ELSE 0

RECURSIVE MostSimilar(_, _, _)
\* the ids of S by decreasing cosine similarity to the query (ties: by id)
MostSimilar(idx, S, query_vector) ==
    IF S = {} THEN << >>
    ELSE LET m == CHOOSE x \in S : \A y \in S :
                      \/ Cosine(idx[x].values, query_vector) > Cosine(idx[y].values, query_vector)
                      \/ /\ Cosine(idx[x].values, query_vector) = Cosine(idx[y].values, query_vector)
                         /\ x[2] <= y[2]
         IN <<m>> \o MostSimilar(idx, S \ {m}, query_vector)

\* PineconeProvider.search: top_k matches, score = match.score, content popped
\* out of the metadata
PineconeSearch(idx, query_vector, limit, filter) ==
    LET match == { e \in DOMAIN idx : MatchesFilter(idx[e].metadata, filter) }
        hits == Take(MostSimilar(idx, match, query_vector), limit)
    IN [ i \in DOMAIN hits |->
           LET metadata == idx[hits[i]].metadata IN
           [ id |-> hits[i],
             score |-> Cosine(idx[hits[i]].values, query_vector),
             content |-> IF "content" \in DOMAIN metadata THEN metadata["content"] ELSE << >>,
             metadata |-> [ k \in DOMAIN metadata \ {"content"} |-> metadata[k] ] ] ]

\* search of the provider in use
ProviderSearch(b, idx, query_vector, limit, filter) ==
    IF b = "chroma" THEN VectorSearch(idx, query_vector, limit, filter)
    ELSE PineconeSearch(idx, query_vector, limit, filter)

\* the content the provider holds for an entry
EntryContent(b, entry) ==
    IF b = "chroma" THEN entry.content ELSE entry.metadata["content"]

\* the last two different contents upserted under an id, after one more
Remember(seen, content) ==
    IF seen = << >> THEN <<content>>
    ELSE IF seen[Len(seen)] = content THEN seen
    ELSE <<seen[Len(seen)], content>>

InitProvider ==
    /\ db = << >>
    /\ index = << >>
    /\ managed_index = << >>
    /\ clock = 1
    /\ nextId = 0
    /\ pc = [p \in Procs |-> "idle"]
    /\ op = [p \in Procs |-> NoOp]
    /\ loc = [p \in Procs |-> NoLoc]
    /\ res = [p \in Procs |-> NoRes]
    /\ calls = [p \in Procs |-> << >>]
    /\ creator = << >>
    /\ deletedIds = {}
    /\ backend \in Backends
    /\ provCall = NoOp
    /\ search_results = << >>
    /\ upserts = [e \in VectorIds |-> << >>]
    /\ jobs = << >>
    /\ cleanup_task = "none"
    /\ detached = 0
    /\ jobCall = NoOp
    /\ terminal_since = << >>
    /\ lifespan = "running"
    /\ search_history = << >>
    /\ query_counts = << >>
    /\ search_results_count = << >>
    /\ analyticsCall = NoOp
    /\ arrivals = << >>
    /\ StartedUp(backend, "set")

\* await provider.upsert_vectors(collection, [one record])
ProviderUpsert(id, values, content, metadata) ==
    /\ index' = ProviderUpsertVectors(backend, index,
                    << [id |-> id, values |-> values, content |-> content,
                        metadata |-> metadata] >>)
    /\ provCall' = [kind |-> "upsert", id |-> id, content |-> content]
    /\ search_results' = << >>
    /\ upserts' = [upserts EXCEPT ![id] = Remember(upserts[id], content)]
    /\ UNCHANGED <<service, backend, managed_index, jobVars, analytics, startup>>

\* await provider.search(collection, query_vector, limit, filter)
ProviderSearchCall(query_vector, limit, filter) ==
    /\ provCall' = [kind |-> "search", query_vector |-> query_vector, limit |-> limit,
                    filter |-> filter]
    /\ search_results' = ProviderSearch(backend, index, query_vector, limit, filter)
    /\ UNCHANGED <<service, backend, managed_index, index, upserts, jobVars, analytics, startup>>

\* await provider.delete_vectors(collection, [id])
ProviderDelete(id) ==
    /\ index' = DeleteVectors(index, {id})
    /\ provCall' = [kind |-> "delete", id |-> id]
    /\ search_results' = << >>
    /\ UNCHANGED <<service, backend, managed_index, upserts, jobVars, analytics, startup>>

NextProvider ==
    \/ \E id \in VectorIds, v \in Vectors, c \in {ContentX, ContentY}, m \in Metadatas :
           ProviderUpsert(id, v, c, m)
    \/ \E q \in Vectors, limit \in 1..2, f \in Filters : ProviderSearchCall(q, limit, f)
    \/ \E id \in VectorIds : ProviderDelete(id)

\* either provider, driven through the VectorDBProvider interface
SpecProvider == InitProvider /\ [][NextProvider]_vars

-----------------------------------------------------------------------------
(* C12 *)

\* C12: for either backend, the list search() returns is sorted by non-increasing
\* score and every score in it lies in [0.0, 1.0] (0..1000 thousandths).
C12_ScoresSortedInRange ==
    /\ \A i \in DOMAIN search_results :
           search_results[i].score >= 0 /\ search_results[i].score <= 1000
    /\ \A i, j \in DOMAIN search_results :
           i < j => search_results[i].score >= search_results[j].score

-----------------------------------------------------------------------------
(* C13 *)

\* the positions of a result list that carry the vector id
Occurrences(results, id) == { i \in DOMAIN results : results[i].id = id }

\* an upsert of `id` with `content` has just been made, and a search that
\* reaches every entry returns the id exactly once with that content
SearchFindsLatest(b, idx, id, content) ==
    \A q \in Vectors :
        LET found == ProviderSearch(b, idx, q, CollectionCount(idx), << >>) IN
        /\ Cardinality(Occurrences(found, id)) = 1
        /\ \A i \in Occurrences(found, id) : found[i].content = content

\* every upsert step: count + 1 for a new id, + 0 for a known one, and the id
\* is then found once with the content just written
UpsertOverwrites ==
    provCall'.kind = "upsert" =>
        /\ CollectionCount(index') =
               CollectionCount(index) + (IF provCall'.id \in DOMAIN index THEN 0 ELSE 1)
        /\ SearchFindsLatest(backend, index', provCall'.id, provCall'.content)

\* what a search call returned: no id twice, each with the last content upserted
SearchReturnsLatestOnce ==
    provCall.kind = "search" =>
        \A i \in DOMAIN search_results :
            /\ Cardinality(Occurrences(search_results, search_results[i].id)) = 1
            /\ upserts[search_results[i].id] # << >>
            /\ search_results[i].content =
                   upserts[search_results[i].id][Len(upserts[search_results[i].id])]

\* C13: upserting a vector id again with different content and then searching
\* returns the id exactly once with the latest content; the collection count
\* grows by one on the first upsert of an id and by zero on every later one.
C13_UpsertOverwritesById == []SearchReturnsLatestOnce /\ [][UpsertOverwrites]_vars

\* a search returned an id that had been upserted twice with different contents
C13_Witness ==
    /\ provCall.kind = "search"
    /\ \E i \in DOMAIN search_results :
           /\ Len(upserts[search_results[i].id]) = 2
           /\ search_results[i].content = upserts[search_results[i].id][2]
    /\ CollectionCount(index) = 1

-----------------------------------------------------------------------------
(* C14 *)

\* C14: every result of a search with a non-empty tag filter is a document whose
\* tags in the metadata store have at least one tag in common with the requested
\* tags.
C14_TagFilterMatchesStoredTags ==
    \A p \in Procs :
        (Done(p, "search") /\ op[p].tags # << >>) =>
            \A d \in ResultIds(res[p].results) :
                /\ d \in DOMAIN db
                /\ Range(db[d].tags) \cap Range(op[p].tags) # {}

-----------------------------------------------------------------------------
(* C15 *)

\* what find_similar(source, owner, limit) must satisfy for its result
SimilarIsSound(store, results, document_id, user_id, limit) ==
    /\ document_id \notin ResultIds(results)
    /\ Len(results) <= limit
    /\ (document_id \notin DOMAIN store \/ store[document_id].user_id # user_id) =>
           results = << >>

-----------------------------------------------------------------------------
(* JobManager: in-memory job tracking and its cleanup task *)

\* the last hour of the job clock
MaxHours == 4

\* max_age_hours, the retention window of the sweep, in hours of the job clock
MaxAgeHours == 1

\* uuid4 values handed out as job ids
JobIds == {"j1"}

JobTypes == {"bulk_delete"}

Terminal == {"completed", "failed"}

\* an Optional argument or field: None is << >>, a value v is <<v>>
None == << >>

\* update_job arguments: status, progress, result, error
JobUpdates ==
    { [status |-> "processing", progress |-> <<50>>, result |-> None, error |-> None],
      [status |-> "completed", progress |-> None, result |-> <<"deleted">>, error |-> None],
      [status |-> "failed", progress |-> None, result |-> None, error |-> <<"boom">>] }

\* everything but the clock, the job map and the cleanup task
notJobs == <<db, index, nextId, pc, op, loc, res, calls, creator, deletedIds, aside,
            analytics, startup>>

\* Job.__init__
NewJob(job_id, job_type, created_at, updated_at) ==
    [ job_id |-> job_id,
      job_type |-> job_type,
      status |-> "pending",
      created_at |-> created_at,
      updated_at |-> updated_at,
      progress |-> None,
      result |-> None,
      error |-> None ]

\* Job.update_status as it would be if every argument were stored, given or not
UpdateStatusStoresAll(job, status, progress, result, error, now) ==
    [ job EXCEPT !.status = status, !.updated_at = now, !.progress = progress,
                 !.result = result, !.error = error ]

\* Job.update_status
UpdateStatus(job, status, progress, result, error, now) ==
    [ job EXCEPT !.status = status,
                 !.updated_at = now,
                 !.progress = IF progress # None THEN progress ELSE @,
                 !.result = IF result # None THEN result ELSE @,
                 !.error = IF error # None THEN error ELSE @ ]

\* datetime.isoformat()
IsoFormat(t) == <<"iso", t>>

\* Job.to_dict
ToDict(job) ==
    [ job_id |-> job.job_id,
      job_type |-> job.job_type,
      status |-> job.status,
      created_at |-> IsoFormat(job.created_at),
      updated_at |-> IsoFormat(job.updated_at),
      progress |-> job.progress,
      result |-> job.result,
      error |-> job.error ]

\* the jobs a sweep at `now` deletes, as it would be if age alone decided
ToDeleteByAgeOnly(js, now, max_age_hours) ==
    { j \in DOMAIN js : now - js[j].created_at > max_age_hours }

\* the jobs a sweep at `now` deletes: older than max_age_hours and terminal
ToDelete(js, now, max_age_hours) ==
    { j \in DOMAIN js : /\ now - js[j].created_at > max_age_hours
                        /\ js[j].status \in Terminal }

\* cleanup_old_jobs as it would be if it deleted nothing
CleanupOldJobsKeepsAll(js, now, max_age_hours) == js

\* JobManager.cleanup_old_jobs
CleanupOldJobs(js, now, max_age_hours) ==
    [ j \in DOMAIN js \ ToDelete(js, now, max_age_hours) |-> js[j] ]

\* JobManager.create_job; Job.__init__ reads the clock twice
CreateJob(job_type) ==
    /\ lifespan = "running"
    /\ DOMAIN terminal_since # JobIds
    /\ \E tick \in {0, 1} :
        LET job_id == CHOOSE j \in JobIds : j \notin DOMAIN terminal_since IN
        /\ clock + tick <= MaxHours
        /\ jobs' = (job_id :> NewJob(job_id, job_type, clock, clock + tick)) @@ jobs
        /\ clock' = clock + tick
        /\ jobCall' = [kind |-> "create_job", job_id |-> job_id]
        /\ terminal_since' = (job_id :> 0) @@ terminal_since
    /\ UNCHANGED <<notJobs, lifespan, cleanup_task, detached>>

\* JobManager.update_job: an unknown job id is only logged
UpdateJob(job_id, u) ==
    /\ lifespan = "running"
    /\ jobCall' = [kind |-> "update_job", job_id |-> job_id, update |-> u]
    /\ IF job_id \in DOMAIN jobs
       THEN /\ jobs' = [jobs EXCEPT ![job_id] =
                           UpdateStatus(@, u.status, u.progress, u.result, u.error, clock)]
            /\ terminal_since' =
                   IF u.status \in Terminal /\ jobs[job_id].status # u.status
                   THEN [terminal_since EXCEPT ![job_id] = clock]
                   ELSE terminal_since
       ELSE UNCHANGED <<jobs, terminal_since>>
    /\ UNCHANGED <<notJobs, lifespan, clock, cleanup_task, detached>>

\* GET /jobs/{job_id}: job.to_dict(), or 404
GetJobStatus(job_id) ==
    /\ lifespan = "running"
    /\ jobCall' = IF job_id \in DOMAIN jobs
                  THEN [kind |-> "get_job", job_id |-> job_id, status_code |-> 200,
                        body |-> ToDict(jobs[job_id])]
                  ELSE [kind |-> "get_job", job_id |-> job_id, status_code |-> 404]
    /\ UNCHANGED <<notJobs, lifespan, clock, jobs, cleanup_task, detached, terminal_since>>

\* JobManager.delete_job
DeleteJob(job_id) ==
    /\ lifespan = "running"
    /\ jobs' = [ j \in DOMAIN jobs \ {job_id} |-> jobs[j] ]
    /\ jobCall' = [kind |-> "delete_job", job_id |-> job_id]
    /\ UNCHANGED <<notJobs, lifespan, clock, cleanup_task, detached, terminal_since>>

\* JobManager.start_cleanup_task, as setup_managers calls it: once, on a new JobManager
StartCleanupTask ==
    /\ lifespan = "running"
    /\ cleanup_task = "none"
    /\ cleanup_task' = "running"
    /\ jobCall' = [kind |-> "start_cleanup_task"]
    /\ UNCHANGED <<notJobs, lifespan, clock, jobs, detached, terminal_since>>

\* one turn of cleanup_loop: the sleep is over, cleanup_old_jobs() runs
CleanupLoop ==
    /\ cleanup_task = "running"
    /\ jobs' = CleanupOldJobs(jobs, clock, MaxAgeHours)
    /\ jobCall' = [kind |-> "cleanup_old_jobs",
                    to_delete |-> ToDelete(jobs, clock, MaxAgeHours)]
    /\ UNCHANGED <<notJobs, lifespan, clock, cleanup_task, detached, terminal_since>>

\* JobManager.stop_cleanup_task on a running task
StopCleanupTask ==
    /\ cleanup_task = "running"
    /\ cleanup_task' = "cancelled"
    /\ jobCall' = [kind |-> "stop_cleanup_task"]
    /\ UNCHANGED <<notJobs, lifespan, clock, jobs, detached, terminal_since>>

\* lifespan, after the yield: shutdown begins and awaits db_client.close(); nothing
\* here reaches the JobManager, whose only reference is a local of setup_managers
ShutdownBegins ==
    /\ lifespan = "running"
    /\ lifespan' = "closing"
    /\ jobCall' = [kind |-> "shutdown"]
    /\ UNCHANGED <<notJobs, clock, jobs, cleanup_task, detached, terminal_since>>

\* lifespan: db_client.close() has returned, "Shutdown complete" is logged
ShutdownCompletes ==
    /\ lifespan = "closing"
    /\ lifespan' = "complete"
    /\ jobCall' = [kind |-> "shutdown_complete"]
    /\ UNCHANGED <<notJobs, clock, jobs, cleanup_task, detached, terminal_since>>

\* an hour passes
Tick ==
    /\ clock < MaxHours
    /\ clock' = clock + 1
    /\ jobCall' = NoOp
    /\ UNCHANGED <<notJobs, lifespan, jobs, cleanup_task, detached, terminal_since>>

NextJobs ==
    \/ \E t \in JobTypes : CreateJob(t)
    \/ \E j \in JobIds, u \in JobUpdates : UpdateJob(j, u)
    \/ \E j \in JobIds : GetJobStatus(j)
    \/ \E j \in JobIds : DeleteJob(j)
    \/ StartCleanupTask
    \/ CleanupLoop
    \/ StopCleanupTask
    \/ ShutdownBegins
    \/ ShutdownCompletes
    \/ Tick

\* the JobManager and its cleanup task
SpecJobs == Init /\ [][NextJobs]_vars

\* the event loop keeps running the cleanup task while it is not cancelled
FairSpecJobs == SpecJobs /\ WF_vars(CleanupLoop)

-----------------------------------------------------------------------------
(* C16 *)

\* pending < processing < completed, failed
Rank(status) ==
    CASE status = "pending" -> 0
      [] status = "processing" -> 1
      [] OTHER -> 2

\* the status of a job that stays in the map moves forward only, and not at all
\* once it is completed or failed
StatusMovesForward ==
    \A j \in DOMAIN jobs \cap DOMAIN jobs' :
        /\ Rank(jobs'[j].status) >= Rank(jobs[j].status)
        /\ jobs[j].status \in Terminal => jobs'[j].status = jobs[j].status

\* C16: a job's status follows pending -> processing -> {completed | failed} and
\* terminal states are final: once completed or failed, no later update_job call
\* changes the status.
C16_TerminalIsFinal == [][StatusMovesForward]_vars

-----------------------------------------------------------------------------
(* C17 *)

\* a create_job step: the new job is pending, of the given type, with no
\* progress, result or error
CreatesPending ==
    (jobCall'.kind = "create_job" /\ jobCall'.job_id \notin DOMAIN jobs) =>
        LET job == jobs'[jobCall'.job_id] IN
        /\ job.status = "pending"
        /\ job.job_type \in JobTypes
        /\ job.progress = None /\ job.result = None /\ job.error = None

\* an update_job step: the status is set; progress, result and error are
\* overwritten when given and kept when not
UpdatesGiven ==
    (jobCall'.kind = "update_job" /\ jobCall'.job_id \in DOMAIN jobs) =>
        LET old == jobs[jobCall'.job_id]
            new == jobs'[jobCall'.job_id]
            u == jobCall'.update
        IN /\ new.status = u.status
           /\ new.progress = (IF u.progress # None THEN u.progress ELSE old.progress)
           /\ new.result = (IF u.result # None THEN u.result ELSE old.result)
           /\ new.error = (IF u.error # None THEN u.error ELSE old.error)
           /\ new.job_type = old.job_type /\ new.created_at = old.created_at

\* the serialized job reports the job's type, status, progress, result and error
SerializedAsStored ==
    (jobCall.kind = "get_job" /\ jobCall.status_code = 200) =>
        LET job == jobs[jobCall.job_id] IN
        /\ jobCall.body.job_type = job.job_type
        /\ jobCall.body.status = job.status
        /\ jobCall.body.progress = job.progress
        /\ jobCall.body.result = job.result
        /\ jobCall.body.error = job.error

\* C17: a job created with a type tag starts pending with no progress, result or
\* error; an update sets the status and overwrites progress, result and error
\* only when a value is given; the serialized job reports type, status, the stored
\* result and the last given progress.
C17_JobFieldsFollowUpdates ==
    []SerializedAsStored /\ [][CreatesPending /\ UpdatesGiven]_vars

\* after processing with progress 50 and completed with a result, the serialized
\* job reports completed, the result and progress 50
C17_Witness ==
    /\ jobCall.kind = "get_job"
    /\ jobCall.status_code = 200
    /\ jobCall.body.job_type = "bulk_delete"
    /\ jobCall.body.status = "completed"
    /\ jobCall.body.result = <<"deleted">>
    /\ jobCall.body.progress = <<50>>
    /\ jobCall.body.error = None

-----------------------------------------------------------------------------
(* C18 *)

\* the age of a job in hours, by its creation time
AgeHours(job, now) == now - job.created_at

\* the jobs a step removes from the map
Removed == DOMAIN jobs \ DOMAIN jobs'

\* a sweep removes only terminal jobs older than the window and changes no other
SweepRemovesOldTerminal ==
    jobCall'.kind = "cleanup_old_jobs" =>
        /\ \A j \in Removed :
               /\ jobs[j].status \in Terminal
               /\ AgeHours(jobs[j], clock) > MaxAgeHours
        /\ \A j \in DOMAIN jobs' : j \in DOMAIN jobs /\ jobs'[j] = jobs[j]

\* C18: a cleanup sweep removes only jobs that are completed or failed and older
\* than the retention window; a pending or processing job is never removed by a
\* sweep however old it is, and a job younger than the window is never removed.
C18_SweepOnlyOldTerminal == [][SweepRemovesOldTerminal]_vars

\* a sweep has removed a job
C18_Witness ==
    /\ jobCall.kind = "cleanup_old_jobs"
    /\ jobCall.to_delete # {}
    /\ jobCall.to_delete \cap DOMAIN jobs = {}

-----------------------------------------------------------------------------
(* C19 *)

\* a sweep removes no job that became terminal less than a window ago
SweepWaitsSinceTerminal ==
    jobCall'.kind = "cleanup_old_jobs" =>
        \A j \in Removed : clock - terminal_since[j] >= MaxAgeHours

\* C19: a job is reaped only after the retention window has elapsed since it
\* became terminal: no sweep removes a job that reached completed or failed less
\* than one retention window ago.
C19_ReapedAfterWindowSinceTerminal == [][SweepWaitsSinceTerminal]_vars

-----------------------------------------------------------------------------
(* C20 *)

\* the job is in the map, terminal and older than the window
Reapable(j) ==
    /\ j \in DOMAIN jobs
    /\ jobs[j].status \in Terminal
    /\ AgeHours(jobs[j], clock) > MaxAgeHours

-----------------------------------------------------------------------------
(* C21 *)

\* C21: at process shutdown the background cleanup task is cancelled and awaited
\* before shutdown completes: once the lifespan has logged "Shutdown complete" the
\* task is no longer running, so no sweep can run after, or race with, process exit
C21_CleanupStoppedBeforeExit == lifespan = "complete" => cleanup_task # "running"

-----------------------------------------------------------------------------
(* AnalyticsManager: in-memory search analytics *)

\* the cap of search_history (1000 in the code), at the scale of the model
HistoryCap == 3

\* the number of top queries reported (10 in the code), at the scale of the model
TopQueries == 2

\* the last tick of the analytics clock, and the ticks that make a day
MaxStamp == 2
TicksPerDay == 2

\* the searches tracked in one run: enough to overflow the cap twice
MaxTracked == HistoryCap + 2

\* track_search arguments: query, result_count, search_mode
TrackedSearches ==
    { [query |-> <<"D", "B">>, result_count |-> 2, search_mode |-> "semantic"],
      [query |-> <<"d", "b">>, result_count |-> 0, search_mode |-> "keyword"],
      [query |-> <<"n", "e", "t">>, result_count |-> 1, search_mode |-> "hybrid"],
      [query |-> <<"e">>, result_count |-> 3, search_mode |-> "keyword"] }

\* datetime.fromisoformat(s)
FromIsoFormat(s) == s[2]

\* timestamp.strftime("%Y-%m-%d"): the day the tick falls in
DateKey(t) == t \div TicksPerDay

\* the search_record as it would be if the mode were left at its default
SearchRecordDefaultMode(query, result_count, user_id, search_mode, now) ==
    [ query |-> query,
      result_count |-> result_count,
      user_id |-> user_id,
      search_mode |-> "semantic",
      timestamp |-> IsoFormat(now) ]

\* the search_record of track_search; the elapsed time is not modelled
SearchRecord(query, result_count, user_id, search_mode, now) ==
    [ query |-> query,
      result_count |-> result_count,
      user_id |-> user_id,
      search_mode |-> search_mode,
      timestamp |-> IsoFormat(now) ]

\* search_history after the append, as it would be if the oldest records were kept
TrimKeepsOldest(history) == Take(history, HistoryCap)

\* if len(search_history) > 1000: search_history = search_history[-1000:]
TrimHistory(history) ==
    IF Len(history) > HistoryCap THEN Drop(history, Len(history) - HistoryCap)
    ELSE history

\* query_counts[key] += 1 on a defaultdict(int); a dict keeps insertion order
Increment(counts, key) ==
    IF \E i \in DOMAIN counts : counts[i].query = key
    THEN [ i \in DOMAIN counts |->
             IF counts[i].query = key
             THEN [counts[i] EXCEPT !.count = @ + 1] ELSE counts[i] ]
    ELSE Append(counts, [query |-> key, count |-> 1])

\* query_counts[query.lower()] += 1
CountQuery(counts, query) == Increment(counts, Lower(query))

RECURSIVE InsertByCount(_, _)
\* x placed behind every entry whose count is at least its own
InsertByCount(sorted, x) ==
    IF sorted = << >> THEN <<x>>
    ELSE IF Head(sorted).count >= x.count
         THEN <<Head(sorted)>> \o InsertByCount(Tail(sorted), x)
         ELSE <<x>> \o sorted

RECURSIVE SortedByCount(_)
\* sorted(items, key=count, reverse=True): stable, equal counts keep their order
SortedByCount(items) ==
    IF items = << >> THEN << >>
    ELSE InsertByCount(SortedByCount(Take(items, Len(items) - 1)), items[Len(items)])

\* the top queries as they would be without the sort
TopQueriesUnsorted(counts) == Take(counts, TopQueries)

\* sorted(query_counts.items(), by count, reverse=True)[:10]
TopQueriesOf(counts) == Take(SortedByCount(counts), TopQueries)

RECURSIVE Sum(_)
Sum(numbers) == IF numbers = << >> THEN 0 ELSE Head(numbers) + Sum(Tail(numbers))

\* round(total / n, 2), in hundredths; a tie goes to the even neighbour
RoundedAverage(total, n) ==
    LET q == (100 * total) \div n
        r == (100 * total) % n
    IN IF 2 * r < n THEN q
       ELSE IF 2 * r > n THEN q + 1
       ELSE IF q % 2 = 0 THEN q ELSE q + 1

\* the per-day histogram of get_analytics
Trends(history) ==
    LET days == { DateKey(FromIsoFormat(history[i].timestamp)) : i \in DOMAIN history }
    IN [ d \in days |->
           Cardinality({ i \in DOMAIN history :
                           DateKey(FromIsoFormat(history[i].timestamp)) = d }) ]

\* AnalyticsManager.get_analytics
GetAnalyticsSummary(history, counts, results_count) ==
    IF history = << >>
    THEN [ total_searches |-> 0, top_queries |-> << >>, avg_results_per_query |-> 0,
           search_trends |-> << >> ]
    ELSE [ total_searches |-> Len(history),
           top_queries |-> TopQueriesOf(counts),
           avg_results_per_query |->
               IF results_count # << >>
               THEN RoundedAverage(Sum(results_count), Len(results_count)) ELSE 0,
           search_trends |-> Trends(history) ]

\* everything but the analytics state and the clock
notAnalytics == <<db, index, nextId, pc, op, loc, res, calls, creator, deletedIds, aside,
                  jobVars, startup>>

\* the body of AnalyticsManager.track_search for one search_record
Track(record) ==
    /\ search_history' = TrimHistory(Append(search_history, record))
    /\ query_counts' = CountQuery(query_counts, record.query)
    /\ search_results_count' = Append(search_results_count, record.result_count)
    /\ arrivals' = Append(arrivals, record)

\* AnalyticsManager.track_search, called directly
TrackSearch(s, user_id) ==
    /\ Len(arrivals) < MaxTracked
    /\ LET record == SearchRecord(s.query, s.result_count, user_id, s.search_mode, clock)
       IN /\ Track(record)
          /\ analyticsCall' = [kind |-> "track_search", record |-> record]
    /\ UNCHANGED <<notAnalytics, clock>>

\* AnalyticsManager.get_analytics
GetAnalytics ==
    /\ analyticsCall' =
           [kind |-> "get_analytics",
            summary |-> GetAnalyticsSummary(search_history, query_counts,
                                            search_results_count)]
    /\ UNCHANGED <<notAnalytics, clock, search_history, query_counts, search_results_count,
                   arrivals>>

\* AnalyticsManager.reset_analytics
ResetAnalytics ==
    /\ search_history' = << >>
    /\ query_counts' = << >>
    /\ search_results_count' = << >>
    /\ arrivals' = << >>
    /\ analyticsCall' = [kind |-> "reset_analytics"]
    /\ UNCHANGED <<notAnalytics, clock>>

\* the clock read by datetime.utcnow() moves on
StampAdvances ==
    /\ clock < MaxStamp
    /\ clock' = clock + 1
    /\ analyticsCall' = NoOp
    /\ UNCHANGED <<notAnalytics, search_history, query_counts, search_results_count,
                   arrivals>>

NextAnalytics ==
    \/ \E s \in TrackedSearches : TrackSearch(s, "alice")
    \/ GetAnalytics
    \/ ResetAnalytics
    \/ StampAdvances

\* the AnalyticsManager driven directly
SpecAnalytics == Init /\ [][NextAnalytics]_vars

-----------------------------------------------------------------------------
(* C22 *)

\* the last n elements of seq
LastOf(seq, n) == SubSeq(seq, Max(Len(seq) - n, 0) + 1, Len(seq))

\* C22: after any sequence of track_search calls the search-event log holds at most
\* the cap of events, and they are exactly the most recent events tracked, in arrival
\* order: the oldest are evicted first
C22_LogHoldsMostRecent ==
    /\ Len(search_history) <= HistoryCap
    /\ search_history = LastOf(arrivals, HistoryCap)

\* more searches than the cap were tracked and the oldest one is gone
C22_Witness ==
    /\ Len(arrivals) > HistoryCap
    /\ Len(search_history) = HistoryCap
    /\ arrivals[1] # search_history[1]

-----------------------------------------------------------------------------
(* C23 *)

\* the result counts of the records of a log, in order
ResultCountsOf(history) == [ i \in DOMAIN history |-> history[i].result_count ]

\* the number of records of a log whose case-folded query is `key`
FrequencyIn(history, key) ==
    Cardinality({ i \in DOMAIN history : Lower(history[i].query) = key })

\* C23: the summary of get_analytics is derived from the bounded event log: the total,
\* the per-query frequencies, the average results per query and the per-day histogram
\* are all computed over the retained events, and all analytics state stays within the cap
C23_SummaryOverRetainedEvents ==
    /\ Len(search_results_count) <= HistoryCap
    /\ \A i \in DOMAIN query_counts : query_counts[i].count <= HistoryCap
    /\ analyticsCall.kind = "get_analytics" =>
         LET summary == analyticsCall.summary IN
         /\ summary.total_searches = Len(search_history)
         /\ \A i \in DOMAIN summary.top_queries :
                summary.top_queries[i].count =
                    FrequencyIn(search_history, summary.top_queries[i].query)
         /\ summary.avg_results_per_query =
                IF search_history = << >> THEN 0
                ELSE RoundedAverage(Sum(ResultCountsOf(search_history)),
                                    Len(search_history))
         /\ summary.search_trends = Trends(search_history)

-----------------------------------------------------------------------------
(* C24 *)

\* the summary get_analytics returns when no search was tracked
EmptySummary ==
    [ total_searches |-> 0, top_queries |-> << >>, avg_results_per_query |-> 0,
      search_trends |-> << >> ]

\* the case-folded queries tracked since the last reset
FoldedQueries == { Lower(arrivals[i].query) : i \in DOMAIN arrivals }

\* top is a list of at most TopQueries entries, by non-increasing count, with one
\* entry per case-folded query that counts every spelling of it, and no query left
\* out was tracked more often than a listed one
IsTopList(top) ==
    /\ Len(top) <= TopQueries
    /\ Len(top) = Min(TopQueries, Cardinality(FoldedQueries))
    /\ \A i \in DOMAIN top, j \in DOMAIN top : i < j => top[i].count >= top[j].count
    /\ \A i \in DOMAIN top, j \in DOMAIN top : i # j => top[i].query # top[j].query
    /\ \A i \in DOMAIN top :
           /\ top[i].query \in FoldedQueries
           /\ top[i].count = FrequencyIn(arrivals, top[i].query)
    /\ \A q \in FoldedQueries :
           (\A i \in DOMAIN top : top[i].query # q) =>
               \A i \in DOMAIN top : top[i].count >= FrequencyIn(arrivals, q)

\* C24: get_analytics reports at most the top queries, ordered by non-increasing
\* count, where queries that differ only in letter case are counted as one query;
\* with no tracked search it reports zero searches, no top queries, average 0.0 and
\* an empty histogram
C24_TopQueriesAndEmptySummary ==
    analyticsCall.kind = "get_analytics" =>
        IF arrivals = << >> THEN analyticsCall.summary = EmptySummary
        ELSE IsTopList(analyticsCall.summary.top_queries)

\* get_analytics after more distinct queries than are reported, two of them
\* spellings of one query that is listed, and the sort has moved the first place
C24_Witness ==
    /\ analyticsCall.kind = "get_analytics"
    /\ Cardinality(FoldedQueries) > TopQueries
    /\ \E i \in DOMAIN arrivals, j \in DOMAIN arrivals :
           /\ arrivals[i].query # arrivals[j].query
           /\ Lower(arrivals[i].query) = Lower(arrivals[j].query)
           /\ \E k \in DOMAIN analyticsCall.summary.top_queries :
                  /\ analyticsCall.summary.top_queries[k].query = Lower(arrivals[i].query)
                  /\ analyticsCall.summary.top_queries[k].count >= 2
    /\ query_counts[1].count < analyticsCall.summary.top_queries[1].count

-----------------------------------------------------------------------------
(* Unified search endpoint: POST /api/v1/knowledge/search *)

\* the searches one run of the endpoint specification answers
MaxSearches == 1

\* UnifiedSearchRequest bodies without the mode: query, limit, offset, document_type
\* (None is ""), tags (None is << >>)
UnifiedBodies ==
    { [query |-> <<"D", "B">>, limit |-> 2, offset |-> 0, document_type |-> "",
       tags |-> << >>],
      [query |-> <<" ">>, limit |-> 1, offset |-> 0, document_type |-> "",
       tags |-> <<TagNet>>],
      [query |-> <<"o">>, limit |-> 1, offset |-> 1, document_type |-> "",
       tags |-> << >>] }

\* the callers that search
Searchers == {"alice"}

\* search_mode is any string: the three modes and one that is none of them
SearchModes == {"semantic", "keyword", "hybrid", "fuzzy"}

\* the branches as they would be if hybrid mode blended the semantic hits with the
\* keyword hits
SearchBranchBlended(mgrs, store, idx, mode, body, user_id, fails) ==
    LET query == Strip(body.query)
        keyword == KeywordSearch(store, body.query, user_id, body.limit, body.offset,
                                 body.document_type, body.tags)
        searched == IF fails THEN [status |-> "error", status_code |-> 500]
                    ELSE [status |-> "ok",
                          results |-> Search(idx, query, user_id, body.limit,
                                             body.document_type, body.tags)]
    IN CASE mode = "semantic" ->
              IF mgrs = "none" THEN [status |-> "ok", results |-> << >>] ELSE searched
         [] mode = "keyword" ->
              IF mgrs = "none" THEN [status |-> "ok", results |-> << >>]
              ELSE [status |-> "ok", results |-> keyword]
         [] mode = "hybrid" ->
              IF mgrs = "none" \/ fails THEN [status |-> "error", status_code |-> 500]
              ELSE [status |-> "ok", results |-> searched.results \o keyword]
         [] OTHER -> [status |-> "error", status_code |-> 400]

\* the branch of search_documents for the mode: the results, or the error raised.
\* `fails` says whether the vector backend raises during search_manager.search.
\* (The length check of the handler can never fire: the request model already
\* limits the query to 1000 characters.)
SearchBranch(mgrs, store, idx, mode, body, user_id, fails) ==
    LET query == Strip(body.query)
        searched == IF fails THEN [status |-> "error", status_code |-> 500]
                    ELSE [status |-> "ok",
                          results |-> Search(idx, query, user_id, body.limit,
                                             body.document_type, body.tags)]
    IN CASE mode = "semantic" ->
              IF mgrs = "none" THEN [status |-> "ok", results |-> << >>] ELSE searched
         [] mode = "keyword" ->
              IF mgrs = "none" THEN [status |-> "ok", results |-> << >>]
              ELSE [status |-> "ok",
                    results |-> KeywordSearch(store, body.query, user_id, body.limit,
                                              body.offset, body.document_type,
                                              body.tags)]
         [] mode = "hybrid" ->
              IF mgrs = "none" THEN [status |-> "error", status_code |-> 500]
              ELSE searched
         [] OTHER -> [status |-> "error", status_code |-> 400]

\* the store call the branch issues
BranchCalls(mgrs, mode) ==
    IF mgrs = "none" THEN << >>
    ELSE CASE mode \in {"semantic", "hybrid"} -> <<"vector_db.search">>
           [] mode = "keyword" -> <<"db.list_documents">>
           [] OTHER -> << >>

\* the response body of search_documents
SearchResponseBody(query, mode, results) ==
    [ status |-> "ok",
      query |-> query,
      search_mode |-> mode,
      results |-> results,
      total_found |-> Len(results),
      returned |-> Len(results) ]

\* what search_documents answers: the response body, or the error. With the managers
\* unset the call of analytics_manager.track_search raises, whatever the branch did
SearchOutcome(mgrs, store, idx, mode, body, user_id, fails) ==
    LET branch == SearchBranch(mgrs, store, idx, mode, body, user_id, fails) IN
    IF branch.status = "ok" /\ mgrs = "set"
    THEN SearchResponseBody(Strip(body.query), mode, branch.results)
    ELSE [status |-> "error",
          status_code |-> IF branch.status = "ok" THEN 500 ELSE branch.status_code]

\* search_documents: the branch of the mode, then analytics_manager.track_search, then
\* the response; an error raised on the way is answered without tracking
UnifiedSearch(p, mode, body, user_id, fails) ==
    /\ CanStart(p)
    /\ Len(arrivals) < MaxSearches
    /\ fails => (managers = "set" /\ mode \in {"semantic", "hybrid"})
    /\ op' = [op EXCEPT ![p] = [kind |-> "unified_search", search_mode |-> mode,
                                body |-> body, user_id |-> user_id,
                                backend_fails |-> fails]]
    /\ calls' = [calls EXCEPT ![p] = BranchCalls(managers, mode)]
    /\ LET outcome == SearchOutcome(managers, db, index, mode, body, user_id, fails) IN
       /\ Return(p, outcome)
       /\ IF outcome.status = "ok"
          THEN LET record == SearchRecord(outcome.query, Len(outcome.results), user_id,
                                          mode, clock)
               IN /\ Track(record)
                  /\ analyticsCall' = [kind |-> "track_search", record |-> record]
          ELSE UNCHANGED analytics
    /\ UNCHANGED <<db, index, clock, nextId, creator, deletedIds, aside, jobVars, startup>>

\* setup_managers: the managers are built, the cleanup task is started and the route
\* modules get their managers
SetupManagers ==
    /\ lifespan = "running"
    /\ managers = "none"
    /\ managers' = "set"
    /\ manager_client' = vector_client
    /\ cleanup_task' = "running"
    /\ UNCHANGED <<service, index, aside, jobs, detached, jobCall, terminal_since, lifespan, analytics,
                   env, provider_instance, vector_client, created, factoryCall,
                   first_provider, resets, init_attempts, initialized>>

InitSearch ==
    /\ db = << >>
    /\ index = << >>
    /\ managed_index = << >>
    /\ clock = 1
    /\ nextId = 0
    /\ pc = [p \in Procs |-> "idle"]
    /\ op = [p \in Procs |-> NoOp]
    /\ loc = [p \in Procs |-> NoLoc]
    /\ res = [p \in Procs |-> NoRes]
    /\ calls = [p \in Procs |-> << >>]
    /\ creator = << >>
    /\ deletedIds = {}
    /\ backend = "chroma"
    /\ provCall = NoOp
    /\ search_results = << >>
    /\ upserts = << >>
    /\ jobs = << >>
    /\ cleanup_task = "none"
    /\ detached = 0
    /\ jobCall = NoOp
    /\ terminal_since = << >>
    /\ lifespan = "running"
    /\ search_history = << >>
    /\ query_counts = << >>
    /\ search_results_count = << >>
    /\ analyticsCall = NoOp
    /\ arrivals = << >>
    /\ StartedUp("chroma", "none")

NextSearch ==
    \/ SetupManagers
    \/ \E p \in Serial :
        \/ managers = "set" /\ \E u \in Users, d \in Drafts : CreateDocument(p, u, d)
        \/ CreateUpsert(p)
        \/ \E m \in SearchModes, b \in UnifiedBodies, u \in Searchers, fails \in BOOLEAN :
               UnifiedSearch(p, m, b, u, fails)
        \/ Respond(p)

\* the unified search endpoint over a store filled by create_document
SpecSearch == InitSearch /\ [][NextSearch]_vars

-----------------------------------------------------------------------------
(* C25 *)

\* this step is search_documents answering a request in slot p
SearchStep(p) ==
    /\ pc[p] = "idle"
    /\ pc'[p] = "done"
    /\ op'[p].kind = "unified_search"

\* the step records exactly one analytics event, with the requested mode and the
\* number of results answered
RecordsOneEvent(p) ==
    /\ res'[p].status = "ok"
    /\ Len(arrivals') = Len(arrivals) + 1
    /\ SubSeq(arrivals', 1, Len(arrivals)) = arrivals
    /\ LET event == arrivals'[Len(arrivals')] IN
       /\ event.search_mode = op'[p].search_mode
       /\ event.result_count = Len(res'[p].results)
       /\ search_history' = TrimHistory(Append(search_history, event))

-----------------------------------------------------------------------------
(* C26 *)

\* what the caller gets: the result list, or the error
AnswerOf(response) ==
    IF response.status = "ok" THEN [status |-> "ok", results |-> response.results]
    ELSE [status |-> "error", status_code |-> response.status_code]

\* C26: hybrid mode is an alias of semantic mode: for the same query, owner, limit,
\* type filter and tags against the same store state, a hybrid search returns the
\* same result list as a semantic search
C26_HybridIsSemantic ==
    [][\A p \in Procs :
          SearchStep(p) /\ op'[p].search_mode = "hybrid" =>
              AnswerOf(res'[p]) =
                  AnswerOf(SearchOutcome(managers, db, index, "semantic", op'[p].body,
                                         op'[p].user_id, op'[p].backend_fails))]_vars

\* a hybrid search has returned a document
C26_Witness ==
    \E p \in Procs :
        /\ Done(p, "unified_search")
        /\ op[p].search_mode = "hybrid"
        /\ res[p].status = "ok"
        /\ Len(res[p].results) >= 1

-----------------------------------------------------------------------------
(* C27 *)

\* the document matches the keyword request: its title or content holds the stripped
\* query whatever the letter case, and it carries a requested tag if tags are requested
KeywordMatches(row, body) ==
    LET folded == Lower(Strip(body.query)) IN
    /\ \/ Contains(Lower(row.title), folded)
       \/ Contains(Lower(row.content), folded)
    /\ body.tags # << >> => Range(body.tags) \cap Range(row.tags) # {}

\* the ids of the owner's matching documents, in the order the store lists them
MatchingIds(store, user_id, body) ==
    IdsAscending({ d \in DOMAIN store :
                     /\ store[d].user_id = user_id
                     /\ body.document_type # "" =>
                            store[d].document_type = body.document_type
                     /\ KeywordMatches(store[d], body) })

-----------------------------------------------------------------------------
(* Startup: the provider factory and initialize() *)

\* the provider objects one run constructs, and the resets it performs
MaxProviders == 2
MaxResets == 1

\* the retry budget of initialize(): the attempts made before the failure is final
MaxAttempts == 3

\* os.environ as far as the factory reads it; "<unset>" is a variable that is not set
EnvValues ==
    { [VECTOR_DB_PROVIDER |-> v, PINECONE_API_KEY |-> k] :
        v \in {"<unset>", "chroma", "Pinecone", "bogus"}, k \in BOOLEAN }

\* os.getenv(name, default)
GetEnv(value, default) == IF value = "<unset>" THEN default ELSE value

\* str.lower() on the provider names
LowerName(v) == CASE v = "Pinecone" -> "pinecone" [] v = "Chroma" -> "chroma" [] OTHER -> v

\* get_vector_provider when no instance is held: the provider the environment names
\* is constructed, or the configuration is rejected (the pinecone library is taken
\* to be installed)
BuildProvider(e, n) ==
    LET provider_type == LowerName(GetEnv(e.VECTOR_DB_PROVIDER, "chroma")) IN
    CASE provider_type = "pinecone" ->
           IF ~e.PINECONE_API_KEY
           THEN [status |-> "error", error |-> "ValueError", instance |-> << >>,
                 created |-> n]
           ELSE [status |-> "ok", provider |-> Provider(n + 1, "pinecone"),
                 instance |-> <<Provider(n + 1, "pinecone")>>, created |-> n + 1]
      [] provider_type = "chroma" ->
           [status |-> "ok", provider |-> Provider(n + 1, "chroma"),
            instance |-> <<Provider(n + 1, "chroma")>>, created |-> n + 1]
      [] OTHER ->
           [status |-> "error", error |-> "ValueError", instance |-> << >>,
            created |-> n]

\* get_vector_provider as it would be if it built a provider on every call
GetVectorProviderAlwaysBuilds(instance, e, n) == BuildProvider(e, n)

\* get_vector_provider: the instance held, else a new one
GetVectorProvider(instance, e, n) ==
    IF instance # << >>
    THEN [status |-> "ok", provider |-> instance[1], instance |-> instance, created |-> n]
    ELSE BuildProvider(e, n)

\* the effect of one get_vector_provider call on the factory
FactoryGet(call) ==
    /\ call.created <= MaxProviders
    /\ provider_instance' = call.instance
    /\ created' = call.created
    /\ first_provider' = IF first_provider = << >> /\ call.status = "ok"
                         THEN <<call.provider>> ELSE first_provider
    /\ factoryCall' = IF call.status = "ok"
                      THEN [kind |-> "get_vector_provider", status |-> "ok",
                            provider |-> call.provider]
                      ELSE [kind |-> "get_vector_provider", status |-> "error",
                            error |-> call.error]

\* everything startup does not touch
notStartup == <<service, index, aside, jobs, cleanup_task, detached, jobCall, terminal_since,
                analytics>>

\* the environment changes
SetEnv(e) ==
    /\ env # e
    /\ env' = e
    /\ factoryCall' = [kind |-> "setenv"]
    /\ UNCHANGED <<notStartup, lifespan, managers, provider_instance, vector_client,
                   manager_client, created, first_provider, resets, init_attempts,
                   initialized>>

\* lifespan, startup: vector_client = get_vector_provider(); a rejected
\* configuration ends the startup
LifespanGetsProvider ==
    /\ lifespan = "starting"
    /\ LET call == GetVectorProvider(provider_instance, env, created) IN
       /\ FactoryGet(call)
       /\ IF call.status = "ok"
          THEN vector_client' = <<call.provider>> /\ lifespan' = "initializing"
          ELSE vector_client' = vector_client /\ lifespan' = "failed"
    /\ UNCHANGED <<notStartup, managers, env, manager_client, resets, init_attempts,
                   initialized>>

\* get_vector_provider, called by anyone else
GetVectorProviderCall ==
    /\ lifespan # "starting"
    /\ FactoryGet(GetVectorProvider(provider_instance, env, created))
    /\ UNCHANGED <<notStartup, lifespan, managers, env, vector_client, manager_client,
                   resets, init_attempts, initialized>>

\* reset_vector_provider
ResetVectorProvider ==
    /\ resets < MaxResets
    /\ provider_instance' = << >>
    /\ resets' = resets + 1
    /\ factoryCall' = [kind |-> "reset_vector_provider"]
    /\ UNCHANGED <<notStartup, lifespan, managers, env, vector_client, manager_client,
                   created, first_provider, init_attempts, initialized>>

\* the retry decorator of initialize() as it would be without a budget
RetryForever(failed) == TRUE

\* the retry decorator of initialize(): another attempt is made while fewer than the
\* budget have failed
ShouldRetry(failed) == failed < MaxAttempts

\* lifespan, startup: an attempt of vector_client.initialize() connects; the client
\* and the default collection are set and the application starts serving
InitializeSucceeds ==
    /\ lifespan = "initializing"
    /\ initialized' = initialized \cup {vector_client[1].id}
    /\ lifespan' = "running"
    /\ factoryCall' = [kind |-> "initialize", status |-> "ok"]
    /\ UNCHANGED <<notStartup, managers, env, provider_instance, vector_client,
                   manager_client, created, first_provider, resets, init_attempts>>

\* lifespan, startup: an attempt of vector_client.initialize() raises ConnectionError;
\* it is retried within the budget, else the error ends the startup
InitializeFails ==
    /\ lifespan = "initializing"
    /\ init_attempts' = init_attempts + 1
    /\ IF ShouldRetry(init_attempts + 1)
       THEN /\ lifespan' = lifespan
            /\ factoryCall' = [kind |-> "initialize", status |-> "retrying"]
       ELSE /\ lifespan' = "failed"
            /\ factoryCall' = [kind |-> "initialize", status |-> "error",
                               error |-> "ConnectionError"]
    /\ UNCHANGED <<notStartup, managers, env, provider_instance, vector_client,
                   manager_client, created, first_provider, resets, initialized>>

InitStartup ==
    /\ db = << >>
    /\ index = << >>
    /\ managed_index = << >>
    /\ clock = 1
    /\ nextId = 0
    /\ pc = [p \in Procs |-> "idle"]
    /\ op = [p \in Procs |-> NoOp]
    /\ loc = [p \in Procs |-> NoLoc]
    /\ res = [p \in Procs |-> NoRes]
    /\ calls = [p \in Procs |-> << >>]
    /\ creator = << >>
    /\ deletedIds = {}
    /\ backend = "chroma"
    /\ provCall = NoOp
    /\ search_results = << >>
    /\ upserts = << >>
    /\ jobs = << >>
    /\ cleanup_task = "none"
    /\ detached = 0
    /\ jobCall = NoOp
    /\ terminal_since = << >>
    /\ lifespan = "starting"
    /\ search_history = << >>
    /\ query_counts = << >>
    /\ search_results_count = << >>
    /\ analyticsCall = NoOp
    /\ arrivals = << >>
    /\ managers = "none"
    /\ env \in EnvValues
    /\ provider_instance = << >>
    /\ vector_client = << >>
    /\ manager_client = << >>
    /\ created = 0
    /\ factoryCall = NoOp
    /\ first_provider = << >>
    /\ resets = 0
    /\ init_attempts = 0
    /\ initialized = {}

NextStartup ==
    \/ \E e \in EnvValues : SetEnv(e)
    \/ LifespanGetsProvider
    \/ GetVectorProviderCall
    \/ ResetVectorProvider
    \/ InitializeSucceeds
    \/ InitializeFails
    \/ SetupManagers

\* the process from its start to the point where it serves
SpecStartup == InitStartup /\ [][NextStartup]_vars

\* an attempt of initialize() returns or raises
FairSpecStartup == SpecStartup /\ WF_vars(InitializeSucceeds \/ InitializeFails)

-----------------------------------------------------------------------------
(* C28 *)

\* this step is a get_vector_provider call that returned a provider
ProviderReturned ==
    /\ factoryCall'.kind = "get_vector_provider"
    /\ factoryCall'.status = "ok"
    /\ factoryCall' # factoryCall \/ created' # created \/ lifespan' # lifespan

\* the provider the managers were built with is never replaced
ManagersKeepProvider == manager_client # << >> => manager_client' = manager_client

\* C28 as stated: after the first successful get_vector_provider call every later
\* call returns the same instance whatever the configuration says at that time, and
\* the instance held by the managers is never replaced while the process runs
C28_SingletonNeverSwapped ==
    [][/\ (ProviderReturned /\ first_provider # << >>) =>
              factoryCall'.provider = first_provider[1]
       /\ ManagersKeepProvider]_vars

\* C28, amended: as long as reset_vector_provider has not been called, every
\* get_vector_provider call after the first successful one returns the same instance
\* whatever the configuration says at that time; the instance held by the managers
\* is never replaced while the process runs, not even by a reset
C28_SingletonUntilReset ==
    [][/\ (ProviderReturned /\ first_provider # << >> /\ resets = 0) =>
              factoryCall'.provider = first_provider[1]
       /\ ManagersKeepProvider]_vars

\* a later call has returned the first instance although the environment by then
\* names another provider, and the managers hold that instance
C28_Witness ==
    /\ factoryCall.kind = "get_vector_provider"
    /\ factoryCall.status = "ok"
    /\ first_provider = <<factoryCall.provider>>
    /\ manager_client = first_provider
    /\ LowerName(GetEnv(env.VECTOR_DB_PROVIDER, "chroma")) # factoryCall.provider.type

-----------------------------------------------------------------------------
(* C29 *)

\* initialize() is over: the application serves, or the startup has failed
InitializeOver == lifespan \in {"running", "failed"}

\* C29: initialize() of a provider retries transient connection failures a bounded
\* number of times and always terminates: either it succeeds with the client and the
\* default collection ready, or, once the retry budget is exhausted, it fails with a
\* connection error that is fatal to startup; it never retries forever
C29_InitializeTerminates ==
    /\ [](init_attempts <= MaxAttempts)
    /\ [](factoryCall.kind = "initialize" =>
            /\ factoryCall.status = "ok" =>
                   /\ lifespan = "running"
                   /\ vector_client[1].id \in initialized
            /\ factoryCall.status = "error" =>
                   /\ lifespan = "failed"
                   /\ init_attempts = MaxAttempts
                   /\ factoryCall.error = "ConnectionError"
            /\ factoryCall.status = "retrying" =>
                   /\ lifespan = "initializing"
                   /\ init_attempts < MaxAttempts)
    /\ [](lifespan = "failed" => [](lifespan = "failed" /\ managers = "none"))
    /\ (lifespan = "initializing") ~> InitializeOver

\* every attempt of the budget has failed and the startup has ended with the error
C29_Witness ==
    /\ lifespan = "failed"
    /\ init_attempts = MaxAttempts
    /\ factoryCall.kind = "initialize"
    /\ factoryCall.status = "error"

-----------------------------------------------------------------------------
(* Provider calls whose backend fails *)

\* the per-request calls of a provider, and where the backend can fail in one: while
\* the collection (index) handle is obtained, or in the operation itself
RequestCalls == {"upsert", "search", "delete"}
FailurePoints == {"handle", "operation"}

\* how a provider call ends when the backend raises at `point`: the exception
\* reaches the caller ("raised"), or the call returns an empty result ("returned").
\* chroma: search catches the failure of get_collection; upsert has no handler and
\* delete re-raises. pinecone: search catches the failure of index.query; upsert has
\* no handler, delete re-raises, and Index() of search is outside its try block
FailureOutcome(b, call, point) ==
    CASE b = "chroma" /\ call = "search" /\ point = "handle" -> "returned"
      [] b = "pinecone" /\ call = "search" /\ point = "operation" -> "returned"
      [] OTHER -> "raised"

\* a provider call during which the backend raises: nothing is written, and no call
\* has a loop that would try the backend again
ProviderCallFails(call, point) ==
    /\ provCall' = [kind |-> "failed", call |-> call, point |-> point,
                    outcome |-> FailureOutcome(backend, call, point),
                    backend_calls |-> 1]
    /\ search_results' = << >>
    /\ UNCHANGED <<service, backend, managed_index, index, upserts, jobVars, analytics, startup>>

NextProviderFails ==
    \/ NextProvider
    \/ \E call \in RequestCalls, point \in FailurePoints : ProviderCallFails(call, point)

\* either provider, driven through its interface, over a backend that may fail
SpecProviderFails == InitProvider /\ [][NextProviderFails]_vars

-----------------------------------------------------------------------------
(* C30 *)

\* C30: a backend failure during a per-request provider call (upsert, search or
\* delete) on an initialized provider is neither retried nor swallowed inside the
\* provider: for both backends the call raises to its caller, and the backend
\* operation is attempted exactly once
C30_FailuresPropagateOnce ==
    provCall.kind = "failed" =>
        /\ provCall.outcome = "raised"
        /\ provCall.backend_calls = 1

-----------------------------------------------------------------------------
(* Search requests while the vector backend is unreachable *)

\* the routes that search the vector index: POST /api/v1/search, GET
\* /api/v1/search/similar/{id}, and POST /api/v1/knowledge/search in semantic and in
\* hybrid mode
VectorRoutes == {"search", "similar", "unified_semantic", "unified_hybrid"}

\* whether the request gets as far as vector_db.search: find_similar returns [] for
\* a source document that is absent or not the caller's before it calls the index
ReachesBackend(route, store, document_id, user_id) ==
    route = "similar" => DbGetDocument(store, document_id, user_id).found

\* what the route answers when the backend raises at `point` during
\* vector_db.search. A provider that catches the failure hands [] to the manager,
\* which formats it into an empty result set. A provider that lets it through
\* raises out of SearchManager.search / find_similar, which have no handler; the
\* routes of search.py have none either (the framework answers 500), and
\* search_documents of knowledge_endpoints.py turns it into HTTPException(500)
UnreachableAnswer(b, route, store, document_id, user_id, point) ==
    IF ~ReachesBackend(route, store, document_id, user_id)
    THEN [status |-> "ok", results |-> << >>]
    ELSE IF FailureOutcome(b, "search", point) = "returned"
    THEN [status |-> "ok", results |-> << >>]
    ELSE [status |-> "error", status_code |-> 500]

\* a search request on `route` during which the backend is unreachable; the unified
\* endpoint tracks the search it answered
SearchUnreachable(p, route, body, document_id, user_id, point) ==
    /\ CanStart(p)
    /\ managers = "set"
    /\ route \in {"unified_semantic", "unified_hybrid"} => Len(arrivals) < MaxSearches
    /\ LET reached == ReachesBackend(route, db, document_id, user_id)
           answer == UnreachableAnswer(backend, route, db, document_id, user_id, point)
           mode == IF route = "unified_hybrid" THEN "hybrid" ELSE "semantic"
       IN /\ op' = [op EXCEPT ![p] = [kind |-> "search_unreachable", route |-> route,
                                       document_id |-> document_id,
                                       user_id |-> user_id, point |-> point,
                                       reached |-> reached]]
          /\ calls' = [calls EXCEPT ![p] =
                          (IF route = "similar" THEN <<"db.get_document">> ELSE << >>)
                          \o (IF reached THEN <<"vector_db.search">> ELSE << >>)]
          /\ Return(p, answer)
          /\ IF route \in {"unified_semantic", "unified_hybrid"} /\ answer.status = "ok"
             THEN LET record == SearchRecord(Strip(body.query), 0, user_id, mode, clock)
                  IN /\ Track(record)
                     /\ analyticsCall' = [kind |-> "track_search", record |-> record]
             ELSE UNCHANGED analytics
    /\ UNCHANGED <<db, index, clock, nextId, creator, deletedIds, aside, jobVars, startup>>

InitUnreachable ==
    /\ db = << >>
    /\ index = << >>
    /\ managed_index = << >>
    /\ clock = 1
    /\ nextId = 0
    /\ pc = [p \in Procs |-> "idle"]
    /\ op = [p \in Procs |-> NoOp]
    /\ loc = [p \in Procs |-> NoLoc]
    /\ res = [p \in Procs |-> NoRes]
    /\ calls = [p \in Procs |-> << >>]
    /\ creator = << >>
    /\ deletedIds = {}
    /\ backend \in Backends
    /\ provCall = NoOp
    /\ search_results = << >>
    /\ upserts = << >>
    /\ jobs = << >>
    /\ cleanup_task = "running"
    /\ detached = 0
    /\ jobCall = NoOp
    /\ terminal_since = << >>
    /\ lifespan = "running"
    /\ search_history = << >>
    /\ query_counts = << >>
    /\ search_results_count = << >>
    /\ analyticsCall = NoOp
    /\ arrivals = << >>
    /\ StartedUp(backend, "set")

NextUnreachable ==
    \E p \in Serial :
        \/ \E u \in Users, d \in Drafts : CreateDocument(p, u, d)
        \/ CreateUpsert(p)
        \/ \E route \in VectorRoutes, b \in UnifiedBodies, id \in DocIds, u \in Users,
              point \in FailurePoints :
               SearchUnreachable(p, route, b, id, u, point)
        \/ Respond(p)

\* either provider behind the managers, unreachable whenever a search arrives
SpecUnreachable == InitUnreachable /\ [][NextUnreachable]_vars

-----------------------------------------------------------------------------
(* C31 *)

\* C31: when the vector backend is unreachable at request time, a search request
\* (semantic, hybrid or find_similar) that reaches the backend is answered with an
\* empty result set, not with an error
C31_UnreachableSearchReturnsEmpty ==
    \A p \in Procs :
        (pc[p] = "done" /\ op[p].kind = "search_unreachable" /\ op[p].reached) =>
            /\ res[p].status = "ok"
            /\ res[p].results = << >>

-----------------------------------------------------------------------------
(* Bulk operations: bulk-delete, batch-delete, bulk-update *)

\* the longest item list of one bulk request
MaxItems == 2

\* POST /api/v1/knowledge/documents/bulk-delete, POST /api/v1/documents/batch-delete,
\* POST /api/v1/documents/bulk-update
BulkRoutes == {"bulk_delete", "batch_delete", "bulk_update"}

\* the caller of the bulk requests
BulkCallers == {"alice"}

\* the documents created before the bulk requests arrive
BulkDrafts == { d \in Drafts : d.title = TitleA }

\* the sequences over S of length 0..n
RECURSIVE SeqsUpTo(_, _)
SeqsUpTo(S, n) ==
    IF n = 0 THEN { << >> }
    ELSE LET shorter == SeqsUpTo(S, n - 1)
         IN shorter \cup { Append(s, x) : s \in shorter, x \in S }

\* one entry of a bulk-update body: document_id (None is << >>) and the other keys
BulkUpdateItems ==
    { [document_id |-> <<1>>, updates |-> ("title" :> TitleB)],
      [document_id |-> <<2>>, updates |-> ("tags" :> <<TagNet>>)],
      [document_id |-> << >>, updates |-> ("tags" :> <<TagNet>>)] }

\* the bodies of a bulk request on `route`
BulkBodies(route) ==
    IF route = "bulk_update" THEN SeqsUpTo(BulkUpdateItems, MaxItems)
    ELSE SeqsUpTo(DocIds, MaxItems)

\* doc_manager.delete_document run on one item: the stores afterwards and what the
\* call did ("true", "false", or "raised" when delete_vectors raises)
DeleteItem(store, idx, document_id, user_id, fails) ==
    LET doc == DbGetDocument(store, document_id, user_id) IN
    IF ~doc.found THEN [store |-> store, index |-> idx, outcome |-> "false"]
    ELSE IF fails THEN [store |-> store, index |-> idx, outcome |-> "raised"]
    ELSE LET deleted == DbDeleteDocument(store, document_id, user_id)
         IN [store |-> deleted.store,
             index |-> DeleteVectors(idx, {doc.row.embedding_id}),
             outcome |-> IF deleted.deleted THEN "true" ELSE "false"]

\* one turn of the bulk-update loop: an entry without document_id is noted and
\* skipped; otherwise doc_manager.update_document runs ("raised" when upsert_vectors
\* raises, after the row was updated)
UpdateItem(b, store, idx, item, user_id, fails, now) ==
    IF item.document_id = << >>
    THEN [store |-> store, index |-> idx, outcome |-> "missing"]
    ELSE LET document_id == item.document_id[1]
             updated == DbUpdateDocument(store, document_id, user_id,
                                         UpdateDict(item.updates), now)
         IN IF ~updated.found THEN [store |-> store, index |-> idx, outcome |-> "false"]
            ELSE IF ~NeedsReindex(item.updates)
            THEN [store |-> updated.store, index |-> idx, outcome |-> "true"]
            ELSE IF fails
            THEN [store |-> updated.store, index |-> idx, outcome |-> "raised"]
            ELSE [store |-> updated.store,
                  index |-> ProviderUpsertVectors(b, idx,
                              << VectorRecord(updated.row.embedding_id, document_id,
                                              user_id, updated.row.title,
                                              updated.row.content,
                                              updated.row.document_type,
                                              updated.row.tags) >>),
                  outcome |-> "true"]

\* whether the backend is called while the item is processed (only then can it fail)
CallsBackend(route, store, item, user_id) ==
    IF route = "bulk_update"
    THEN /\ item.document_id # << >>
         /\ DbGetDocument(store, item.document_id[1], user_id).found
         /\ NeedsReindex(item.updates)
    ELSE DbGetDocument(store, item, user_id).found

\* the loops as they would be if an exception raised for one item always left them
AbortsOnRaiseAlways(route) == TRUE

\* whether an exception raised for one item leaves the loop: bulk_delete_documents
\* wraps each delete in try/except, batch_delete_documents and
\* bulk_update_documents have only the handler around the whole loop
AbortsOnRaise(route) == route # "bulk_delete"

\* ((idx + 1) / total) * 100, in whole percent
Progress(done, total) == (done * 100) \div total

\* the entry appended to `results` by bulk_update_documents
UpdateResult(item, outcome) ==
    IF outcome = "missing" THEN [error |-> "Missing document_id"]
    ELSE IF outcome = "true" THEN [document_id |-> item.document_id[1], success |-> TRUE]
    ELSE [document_id |-> item.document_id[1], success |-> FALSE, error |-> "Not found"]

\* r.get("success")
Succeeded(r) == "success" \in DOMAIN r /\ r.success

\* the body the route returns after the loop
BulkSummary(route, l) ==
    CASE route = "bulk_delete" ->
           [deleted_count |-> l.succeeded, failed_count |-> Len(l.failed_ids),
            failed_ids |-> l.failed_ids, job_id |-> l.job_id[1]]
      [] route = "batch_delete" ->
           [deleted |-> l.succeeded, failed |-> Len(l.failed_ids),
            failed_ids |-> l.failed_ids]
      [] OTHER ->
           [updated |-> Cardinality({ i \in DOMAIN l.results : Succeeded(l.results[i]) }),
            failed |-> Cardinality({ i \in DOMAIN l.results : ~Succeeded(l.results[i]) }),
            results |-> l.results]

\* the locals of a bulk handler at the head of its loop
BulkLocals(job_id) ==
    [pos |-> 1, succeeded |-> 0, failed_ids |-> << >>, results |-> << >>,
     outcomes |-> << >>, job_id |-> job_id]

\* the handler up to its loop: bulk-delete rejects an empty list with 400 and
\* otherwise creates its job and marks it processing; the other two start looping
\* (and answer at once when the list is empty)
BulkStart(p, route, items, user_id) ==
    /\ CanStart(p)
    /\ lifespan = "running"
    /\ managers = "set"
    /\ op' = [op EXCEPT ![p] = [kind |-> "bulk", route |-> route, items |-> items,
                                 user_id |-> user_id]]
    /\ calls' = [calls EXCEPT ![p] = << >>]
    /\ IF route = "bulk_delete" /\ items # << >>
       THEN /\ DOMAIN terminal_since # JobIds
            /\ LET job_id == CHOOSE j \in JobIds : j \notin DOMAIN terminal_since
                   job == NewJob(job_id, "bulk_delete", clock, clock)
               IN /\ jobs' = (job_id :> UpdateStatus(job, "processing", <<0>>, None,
                                                      None, clock)) @@ jobs
                  /\ terminal_since' = (job_id :> 0) @@ terminal_since
                  /\ jobCall' = [kind |-> "bulk_job", job_id |-> job_id,
                                 statuses |-> <<job.status, "processing">>,
                                 progress |-> <<0>>]
                  /\ loc' = [loc EXCEPT ![p] = BulkLocals(<<job_id>>)]
            /\ pc' = [pc EXCEPT ![p] = "bulk_item"]
            /\ UNCHANGED res
       ELSE /\ UNCHANGED <<jobs, terminal_since, jobCall>>
            /\ loc' = [loc EXCEPT ![p] = BulkLocals(None)]
            /\ IF items = << >>
               THEN /\ pc' = [pc EXCEPT ![p] = "done"]
                    /\ res' = [res EXCEPT ![p] =
                                 IF route = "bulk_delete"
                                 THEN [status |-> "error", status_code |-> 400]
                                 ELSE [status |-> "ok",
                                       summary |-> BulkSummary(route, BulkLocals(None))]]
               ELSE /\ pc' = [pc EXCEPT ![p] = "bulk_item"]
                    /\ UNCHANGED res
    /\ UNCHANGED <<db, index, clock, nextId, creator, deletedIds, aside, cleanup_task, detached,
                   lifespan, analytics, startup>>

\* one turn of the loop, and after the last one the answer. `fails` says whether
\* the vector backend raises during this item
BulkItem(p, fails) ==
    /\ pc[p] = "bulk_item"
    /\ LET route == op[p].route
           items == op[p].items
           user_id == op[p].user_id
           l == loc[p]
           item == items[l.pos]
           did == IF route = "bulk_update"
                  THEN UpdateItem(backend, db, index, item, user_id, fails, clock)
                  ELSE DeleteItem(db, index, item, user_id, fails)
           aborted == did.outcome = "raised" /\ AbortsOnRaise(route)
           after == [l EXCEPT
                       !.pos = IF aborted THEN @ ELSE @ + 1,
                       !.succeeded = IF did.outcome = "true" THEN @ + 1 ELSE @,
                       !.failed_ids = IF route # "bulk_update" /\ ~aborted
                                         /\ did.outcome # "true"
                                      THEN Append(@, item) ELSE @,
                       !.results = IF route = "bulk_update" /\ ~aborted
                                   THEN Append(@, UpdateResult(item, did.outcome))
                                   ELSE @,
                       !.outcomes = Append(@, did.outcome)]
           last == l.pos = Len(items)
           summary == BulkSummary(route, after)
       IN /\ fails => CallsBackend(route, db, item, user_id)
          /\ db' = did.store
          /\ index' = did.index
          /\ deletedIds' = IF route # "bulk_update" /\ did.outcome = "true"
                           THEN deletedIds \cup {item} ELSE deletedIds
          /\ loc' = [loc EXCEPT ![p] = after]
          /\ calls' = [calls EXCEPT ![p] = Append(@, route)]
          /\ IF aborted
             THEN /\ pc' = [pc EXCEPT ![p] = "done"]
                  /\ res' = [res EXCEPT ![p] = [status |-> "error", status_code |-> 500]]
             ELSE IF last
             THEN /\ pc' = [pc EXCEPT ![p] = "done"]
                  /\ res' = [res EXCEPT ![p] = [status |-> "ok", summary |-> summary]]
             ELSE UNCHANGED <<pc, res>>
          /\ IF route = "bulk_delete" /\ l.job_id[1] \in DOMAIN jobs
             THEN LET job_id == l.job_id[1]
                      progress == Progress(l.pos, Len(items))
                      stepped == UpdateStatus(jobs[job_id], "processing", <<progress>>,
                                              None, None, clock)
                  IN /\ jobs' = [jobs EXCEPT ![job_id] =
                                   IF last
                                   THEN UpdateStatus(stepped, "completed", <<100>>,
                                                     <<summary>>, None, clock)
                                   ELSE stepped]
                     /\ terminal_since' =
                            IF last THEN [terminal_since EXCEPT ![job_id] = clock]
                            ELSE terminal_since
                     /\ jobCall' = [kind |-> "bulk_job", job_id |-> job_id,
                                    statuses |-> IF last THEN <<"processing", "completed">>
                                                 ELSE <<"processing">>,
                                    progress |-> IF last THEN <<progress, 100>>
                                                 ELSE <<progress>>]
             ELSE UNCHANGED <<jobs, terminal_since, jobCall>>
    /\ UNCHANGED <<clock, nextId, op, creator, aside, cleanup_task, detached, lifespan, analytics,
                   startup>>

NextBulk ==
    \E p \in Serial :
        \/ \E u \in Users, d \in BulkDrafts : CreateDocument(p, u, d)
        \/ CreateUpsert(p)
        \/ \E route \in BulkRoutes, u \in BulkCallers :
             \E items \in BulkBodies(route) : BulkStart(p, route, items, u)
        \/ \E fails \in BOOLEAN : BulkItem(p, fails)
        \/ Respond(p)

\* the three bulk routes over a store filled by create_document
SpecBulk == Init /\ [][NextBulk]_vars

-----------------------------------------------------------------------------
(* C32 *)

\* the counts and the failed ids a summary reports
Reported(route, summary) ==
    CASE route = "bulk_delete" ->
           [succeeded |-> summary.deleted_count, failed |-> summary.failed_count,
            failed_ids |-> Range(summary.failed_ids)]
      [] route = "batch_delete" ->
           [succeeded |-> summary.deleted, failed |-> summary.failed,
            failed_ids |-> Range(summary.failed_ids)]
      [] OTHER ->
           [succeeded |-> summary.updated, failed |-> summary.failed,
            failed_ids |-> { summary.results[i].document_id :
                               i \in { j \in DOMAIN summary.results :
                                         /\ ~Succeeded(summary.results[j])
                                         /\ "document_id" \in DOMAIN summary.results[j] } }]

\* the ids of the items that did not succeed
FailedItems(route, items, outcomes) ==
    IF route = "bulk_update"
    THEN { items[i].document_id[1] :
             i \in { j \in DOMAIN outcomes : outcomes[j] \in {"false", "raised"} } }
    ELSE { items[i] : i \in { j \in DOMAIN outcomes : outcomes[j] # "true" } }

\* the request in slot p processed every item and answered with a complete summary
PartialSuccess(p) ==
    LET route == op[p].route
        items == op[p].items
    IN /\ Len(loc[p].outcomes) = Len(items)
       /\ res[p].status = "ok"
       /\ LET reported == Reported(route, res[p].summary)
          IN /\ reported.succeeded + reported.failed = Len(items)
             /\ FailedItems(route, items, loc[p].outcomes) \subseteq reported.failed_ids

\* C32: every bulk operation (bulk-delete, batch-delete, bulk-update) processes every
\* requested item even when an earlier item fails or raises, and returns a summary
\* in which succeeded + failed equals the number of requested items and every failed
\* id is listed; a failure on one item never aborts the remaining items
C32_BulkPartialSuccess ==
    \A p \in Procs :
        (pc[p] = "done" /\ op[p].kind = "bulk" /\ op[p].items # << >>) =>
            PartialSuccess(p)

-----------------------------------------------------------------------------
(* Concurrent requests: two handlers suspended at their awaits *)

\* the owner whose requests run concurrently
ConcurrentUsers == {"alice"}

\* the patches that change title or content
ReindexPatches == { u \in Patches : NeedsReindex(u) }

\* two requests in flight: each store round trip of DocumentManager is one step, and
\* the event loop may run a step of the other request between any two of them
NextConcurrent ==
    \/ \E p \in Serial, u \in ConcurrentUsers, d \in Drafts : CreateDocument(p, u, d)
    \/ \E p \in Procs :
        \/ CreateUpsert(p)
        \/ \E i \in DocIds, u \in ConcurrentUsers, u2 \in ReindexPatches :
               UpdateDocument(p, i, u, u2)
        \/ UpdateDb(p)
        \/ UpdateUpsert(p)
        \/ \E i \in DocIds, u \in ConcurrentUsers : DeleteDocument(p, i, u)
        \/ DeleteVectorsStep(p)
        \/ DeleteDb(p)
        \/ Respond(p)

\* concurrent create, update and delete calls, no backend failure
SpecConcurrent == Init /\ [][NextConcurrent]_vars

-----------------------------------------------------------------------------
(* C33 *)

\* the vector entries that belong to a document
EntriesOf(document_id) ==
    { e \in DOMAIN index : index[e].metadata.document_id = document_id }

\* the document has exactly one vector entry, with the row's title and content
Converged(row) ==
    /\ Cardinality(EntriesOf(row.document_id)) = 1
    /\ \A e \in EntriesOf(row.document_id) :
          /\ index[e].metadata.title = row.title
          /\ index[e].content = row.content

\* C33: when two updates of the same document, each changing title or content, run
\* concurrently and both complete without backend failure, the two stores converge
\* regardless of interleaving: the vector index holds exactly one entry for the
\* document, and its title and content are the final title and content of the
\* metadata record
C33_ConcurrentUpdatesConverge ==
    \A p, q \in Procs :
        (/\ p # q
         /\ Done(p, "update") /\ Done(q, "update")
         /\ res[p].status = "ok" /\ res[q].status = "ok"
         /\ op[p].document_id = op[q].document_id
         /\ op[p].document_id \in DOMAIN db)
        => Converged(db[op[p].document_id])

-----------------------------------------------------------------------------
(* C36 *)

\* C36: when an update that changes title or content and a delete of the same
\* document run concurrently and both complete without backend failure, no vector
\* entry of the document remains once the metadata row is gone: the index never
\* keeps an entry whose document has no metadata record
C36_NoOrphanAfterUpdateAndDelete ==
    \A p, q \in Procs :
        (/\ Done(p, "update") /\ Done(q, "delete")
         /\ op[p].document_id = op[q].document_id
         /\ res[p].status = "ok"
         /\ res[q].status = "ok" /\ res[q].deleted
         /\ op[p].document_id \notin DOMAIN db)
        => EntriesOf(op[p].document_id) = {}

-----------------------------------------------------------------------------
(* The two providers given the same calls *)

\* one-dimensional embeddings of different length and direction
LockstepVectors == {-1, 1, 4}

\* what DocumentManager and SearchManager read from a SearchResult, the score aside:
\* the id, the content and the metadata, in rank order
Observed(results) ==
    [ i \in DOMAIN results |->
        [ id |-> results[i].id,
          content |-> results[i].content,
          metadata |-> results[i].metadata ] ]

\* upsert_vectors on both providers
BothUpsert(id, values, content, metadata) ==
    LET vectors == << [id |-> id, values |-> values, content |-> content,
                       metadata |-> metadata] >>
    IN /\ index' = UpsertVectors(index, vectors)
       /\ managed_index' = PineconeUpsertVectors(managed_index, vectors)
       /\ provCall' = [kind |-> "upsert", id |-> id]
    /\ UNCHANGED <<service, backend, search_results, upserts, jobVars, analytics, startup>>

\* delete_vectors on both providers
BothDelete(id) ==
    /\ index' = DeleteVectors(index, {id})
    /\ managed_index' = DeleteVectors(managed_index, {id})
    /\ provCall' = [kind |-> "delete", id |-> id]
    /\ UNCHANGED <<service, backend, search_results, upserts, jobVars, analytics, startup>>

\* search on both providers
BothSearch(query_vector, limit, filter) ==
    /\ provCall' = [kind |-> "search", limit |-> limit,
                    local |-> VectorSearch(index, query_vector, limit, filter),
                    managed |-> PineconeSearch(managed_index, query_vector, limit, filter)]
    /\ UNCHANGED <<service, index, backend, managed_index, search_results, upserts,
                   jobVars, analytics, startup>>

\* get_collection_count on both providers: collection.count() and
\* describe_index_stats().total_vector_count
BothCount ==
    /\ provCall' = [kind |-> "count", local |-> CollectionCount(index),
                    managed |-> CollectionCount(managed_index)]
    /\ UNCHANGED <<service, index, backend, managed_index, search_results, upserts,
                   jobVars, analytics, startup>>

NextLockstep ==
    \/ \E id \in VectorIds, v \in LockstepVectors, c \in {ContentX, ContentY},
          m \in Metadatas : BothUpsert(id, v, c, m)
    \/ \E id \in VectorIds : BothDelete(id)
    \/ \E q \in LockstepVectors, limit \in 1..2, f \in Filters : BothSearch(q, limit, f)
    \/ BothCount

\* the local and the managed provider, each given every call the other is given
SpecLockstep == Init /\ [][NextLockstep]_vars

-----------------------------------------------------------------------------
(* C34 *)

\* C34: the two vector backends are interchangeable behind the provider contract:
\* for every sequence of upsert, delete, search and count calls in which the backend
\* does not fail, the managers observe the same ids, content, metadata and counts
\* whether the local or the managed provider is configured
C34_ProvidersInterchangeable ==
    /\ provCall.kind = "search" => Observed(provCall.local) = Observed(provCall.managed)
    /\ provCall.kind = "count" => provCall.local = provCall.managed

-----------------------------------------------------------------------------
(* Semantic search over an index larger than its window *)

\* the most documents indexed before the searches arrive
MaxIndexed == 3

\* SearchRequest bodies: query, limit, document_type (None is ""), tags (None is << >>)
SemanticRequests ==
    { [query |-> q, limit |-> l, document_type |-> t, tags |-> g] :
        q \in {TitleA, <<"t">>}, l \in 1..2, t \in {"", "guide"},
        g \in {<< >>, <<TagDb>>, <<TagNet>>} }

\* the stores after create_document ran for each of `docs` (owner, draft) in turn,
\* document i created at time i
StoreOf(docs) ==
    [ i \in DOMAIN docs |-> DocumentModel(i, docs[i][1], docs[i][2], i, i) ]

IndexOf(docs) ==
    UpsertVectors(<< >>,
        [ i \in DOMAIN docs |->
            VectorRecord(EmbeddingId(i), i, docs[i][1], docs[i][2].title,
                         docs[i][2].content, docs[i][2].document_type,
                         docs[i][2].tags) ])

InitSemantic ==
    /\ \E docs \in SeqsUpTo(Users \X Drafts, MaxIndexed) :
         /\ db = StoreOf(docs)
         /\ index = IndexOf(docs)
         /\ clock = Len(docs) + 1
         /\ nextId = Len(docs)
         /\ creator = [ i \in DOMAIN docs |-> docs[i][1] ]
    /\ managed_index = << >>
    /\ pc = [p \in Procs |-> "idle"]
    /\ op = [p \in Procs |-> NoOp]
    /\ loc = [p \in Procs |-> NoLoc]
    /\ res = [p \in Procs |-> NoRes]
    /\ calls = [p \in Procs |-> << >>]
    /\ deletedIds = {}
    /\ backend = "chroma"
    /\ provCall = NoOp
    /\ search_results = << >>
    /\ upserts = << >>
    /\ jobs = << >>
    /\ cleanup_task = "running"
    /\ detached = 0
    /\ jobCall = NoOp
    /\ terminal_since = << >>
    /\ lifespan = "running"
    /\ search_history = << >>
    /\ query_counts = << >>
    /\ search_results_count = << >>
    /\ analyticsCall = NoOp
    /\ arrivals = << >>
    /\ StartedUp("chroma", "set")

NextSemantic ==
    \E p \in Serial :
        \/ \E u \in Users, r \in SemanticRequests :
               SearchDocuments(p, r.query, u, r.limit, r.document_type, r.tags)
        \/ Respond(p)

\* POST /api/v1/search over the stores left by up to MaxIndexed creates
SpecSemantic == InitSemantic /\ [][NextSemantic]_vars

-----------------------------------------------------------------------------
(* C35 *)

\* the 2 x limit hits the search in slot p gets from the index
WindowOf(p) ==
    VectorSearch(index, GenerateEmbedding(op[p].query), 2 * op[p].limit,
                 WhereFilter(op[p].user_id, op[p].document_type))

\* the hit carries one of the requested tags (every hit passes when none is requested)
PassesTags(hit, tags) ==
    tags = << >> \/ \E i \in DOMAIN tags : tags[i] \in Range(ParseTags(hit.metadata.tags))

\* the positions of the window whose hit passes the tag filter
PassingIn(window, tags) == { i \in DOMAIN window : PassesTags(window[i], tags) }

\* C35: semantic search requests 2 x limit hits from the vector index and returns
\* exactly the first `limit` of those hits that pass the tag filter, in the index's
\* rank order; it never returns more than `limit` results and never a document
\* outside the 2 x limit window
C35_SemanticWindowThenLimit ==
    \A p \in Procs :
        Done(p, "search") =>
            LET window == WindowOf(p)
                passing == PassingIn(window, op[p].tags)
                results == res[p].results
            IN /\ Len(window) <= 2 * op[p].limit
               /\ Len(results) = Min(op[p].limit, Cardinality(passing))
               /\ \A k \in DOMAIN results :
                     \E j \in passing :
                        /\ Cardinality({ i \in passing : i < j }) = k - 1
                        /\ results[k] = FormatResult(window[j])

\* a search answered with fewer than `limit` results although a document of the
\* caller that carries a requested tag lies beyond the window
C35_Witness ==
    \E p \in Procs :
        /\ Done(p, "search")
        /\ op[p].tags # << >>
        /\ op[p].document_type = ""
        /\ Len(res[p].results) < op[p].limit
        /\ LET window == WindowOf(p)
               inside == { window[i].id : i \in DOMAIN window }
           IN \E e \in DOMAIN index \ inside :
                 /\ index[e].metadata.user_id = op[p].user_id
                 /\ PassesTags(index[e], op[p].tags)

-----------------------------------------------------------------------------
(* Bulk delete and its job *)

\* bulk-delete requests over a store filled by create_document, while the cleanup
\* task sweeps the job map and time passes
NextBulkDelete ==
    \/ \E p \in Serial :
        \/ \E u \in Users, d \in BulkDrafts : CreateDocument(p, u, d)
        \/ CreateUpsert(p)
        \/ \E u \in BulkCallers, items \in BulkBodies("bulk_delete") :
               BulkStart(p, "bulk_delete", items, u)
        \/ \E fails \in BOOLEAN : BulkItem(p, fails)
        \/ Respond(p)
    \/ StartCleanupTask
    \/ CleanupLoop
    \/ Tick

SpecBulkDelete == Init /\ [][NextBulkDelete]_vars

\* every awaited delete returns or raises, and the event loop then resumes the handler
FairSpecBulkDelete ==
    SpecBulkDelete /\ WF_vars(\E p \in Serial, fails \in BOOLEAN : BulkItem(p, fails))

-----------------------------------------------------------------------------
(* C37 *)

\* slot p runs a bulk-delete request that got past the empty-list check
InBulkDelete(p) == op[p].kind = "bulk" /\ op[p].route = "bulk_delete" /\ op[p].items # << >>

\* the job of the request in slot p is completed, with progress 100 and the summary
\* returned to the caller as its result
JobCompleted(p) ==
    /\ res[p].status = "ok"
    /\ loc[p].job_id[1] \in DOMAIN jobs
    /\ LET job == jobs[loc[p].job_id[1]]
       IN /\ job.job_type = "bulk_delete"
          /\ job.status = "completed"
          /\ job.progress = <<100>>
          /\ job.result = <<res[p].summary>>
          /\ res[p].summary.job_id = job.job_id

\* the numbers of a sequence never decrease and lie within [0, 100]
RisingPercent(seq) ==
    /\ \A i \in DOMAIN seq : 0 <= seq[i] /\ seq[i] <= 100
    /\ \A i, j \in DOMAIN seq : i <= j => seq[i] <= seq[j]

\* the step in which the request of slot p creates its job: one new job, of type
\* bulk_delete, pending and then processing at progress 0
JobCreatedStep(p) ==
    (pc[p] = "idle" /\ pc'[p] = "bulk_item") =>
        /\ Cardinality(DOMAIN jobs') = Cardinality(DOMAIN jobs) + 1
        /\ loc'[p].job_id[1] \in DOMAIN jobs' \ DOMAIN jobs
        /\ jobs'[loc'[p].job_id[1]].job_type = "bulk_delete"
        /\ jobCall'.statuses = <<"pending", "processing">>
        /\ jobs'[loc'[p].job_id[1]].progress = <<0>>

\* a turn of the loop of slot p: no further job, the status stays processing until
\* the last turn completes it, and the progress rises
JobUpdatedStep(p) ==
    (pc[p] = "bulk_item" /\ loc'[p] # loc[p]) =>
        /\ DOMAIN jobs' = DOMAIN jobs
        /\ loc[p].job_id[1] \in DOMAIN jobs
        /\ LET job_id == loc[p].job_id[1]
           IN /\ jobs[job_id].status = "processing"
              /\ jobCall'.statuses \in {<<"processing">>, <<"processing", "completed">>}
              /\ jobs'[job_id].status = jobCall'.statuses[Len(jobCall'.statuses)]
              /\ (jobs'[job_id].status = "completed") = (pc'[p] = "done")
              /\ RisingPercent(jobs[job_id].progress \o jobCall'.progress)
              /\ jobs'[job_id].progress = <<jobCall'.progress[Len(jobCall'.progress)]>>

\* C37: every bulk-delete request with a non-empty id list creates exactly one job of
\* type bulk_delete whose status goes pending, then processing, then completed; its
\* progress never decreases and stays within [0, 100]; and the job always reaches
\* completed with progress 100 and the summary as its result, whatever per-item
\* deletes fail
C37_BulkDeleteJobLifecycle ==
    /\ [][\A p \in Procs : (InBulkDelete(p)' /\ op' # op => JobCreatedStep(p))
                          /\ (InBulkDelete(p) => JobUpdatedStep(p))]_vars
    /\ \A p \in Procs :
          (InBulkDelete(p) /\ pc[p] = "bulk_item")
              ~> (InBulkDelete(p) /\ pc[p] = "done" /\ JobCompleted(p))

\* a bulk delete of two documents, the first of which raised and the second of which
\* was deleted, has answered, and its job is completed
C37_Witness ==
    \E p \in Procs :
        /\ InBulkDelete(p)
        /\ pc[p] = "done"
        /\ loc[p].outcomes = <<"raised", "true">>
        /\ JobCompleted(p)

-----------------------------------------------------------------------------
(* start_cleanup_task and stop_cleanup_task called in any order *)

\* the most cleanup loops that are replaced while still scheduled
MaxLoops == 2

\* JobManager.start_cleanup_task, whatever _cleanup_task holds: the new task is
\* assigned over the old reference, and a task that was running stays scheduled
StartCleanupTaskCall ==
    /\ lifespan = "running"
    /\ cleanup_task = "running" => detached < MaxLoops
    /\ cleanup_task' = "running"
    /\ detached' = IF cleanup_task = "running" THEN detached + 1 ELSE detached
    /\ jobCall' = [kind |-> "start_cleanup_task"]
    /\ UNCHANGED <<notJobs, lifespan, clock, jobs, terminal_since>>

\* JobManager.stop_cleanup_task, whatever _cleanup_task holds: None is skipped, any
\* other task is cancelled and awaited (a second cancel of the same task does nothing)
StopCleanupTaskCall ==
    /\ lifespan = "running"
    /\ cleanup_task' = IF cleanup_task = "none" THEN "none" ELSE "cancelled"
    /\ jobCall' = [kind |-> "stop_cleanup_task"]
    /\ UNCHANGED <<notJobs, lifespan, clock, jobs, detached, terminal_since>>

\* one turn of a cleanup_loop that _cleanup_task no longer refers to
DetachedCleanupLoop ==
    /\ detached > 0
    /\ jobs' = CleanupOldJobs(jobs, clock, MaxAgeHours)
    /\ jobCall' = [kind |-> "cleanup_old_jobs",
                    to_delete |-> ToDelete(jobs, clock, MaxAgeHours)]
    /\ UNCHANGED <<notJobs, lifespan, clock, cleanup_task, detached, terminal_since>>

NextCleanupCalls ==
    \/ \E t \in JobTypes : CreateJob(t)
    \/ \E j \in JobIds, u \in JobUpdates : UpdateJob(j, u)
    \/ StartCleanupTaskCall
    \/ StopCleanupTaskCall
    \/ CleanupLoop
    \/ DetachedCleanupLoop
    \/ Tick

\* a JobManager whose start and stop methods are called at any time
SpecCleanupCalls == Init /\ [][NextCleanupCalls]_vars

-----------------------------------------------------------------------------
(* C38 *)

\* stop_cleanup_task was the last of the start and stop calls
Stopped == cleanup_task \in {"none", "cancelled"}

\* C38: after stop_cleanup_task has returned, and until the next start, no cleanup
\* loop remains scheduled and no sweep runs, however often start was called before;
\* stop without a prior start changes nothing
C38_StopEndsEverySweep ==
    /\ [](Stopped => detached = 0)
    /\ [][/\ (Stopped /\ Stopped') => jobCall'.kind # "cleanup_old_jobs"
          /\ (cleanup_task = "none" /\ jobCall'.kind = "stop_cleanup_task")
                => UNCHANGED <<jobs, cleanup_task, detached>>]_vars

-----------------------------------------------------------------------------
(* C39 *)

\* no row with this id belongs to user_id: the id is absent or another owner's
NotOwned(document_id, user_id) ==
    document_id \notin DOMAIN db \/ db[document_id].user_id # user_id

\* the step in which p's update or delete call is issued
IssuesUpdateOrDelete(p) ==
    /\ pc[p] = "idle"
    /\ op'[p] # op[p]
    /\ op'[p].kind \in {"update", "delete"}

\* C39: an update or delete issued for an id that is absent or belongs to another
\* owner is over after its lookup, returns NotFound (None, False) and leaves every
\* row and every vector entry as it was, the other owner's included
C39_NotFoundChangesNothing ==
    [][\A p \in Procs :
          ( /\ IssuesUpdateOrDelete(p)
            /\ NotOwned(op'[p].document_id, op'[p].user_id) ) =>
              /\ pc'[p] = "done"
              /\ res'[p] = NotFound(op'[p].kind)
              /\ calls'[p] = <<"db.get_document">>
              /\ db' = db
              /\ index' = index]_vars

\* a delete of another owner's indexed document has returned False, with the row
\* and its vector entry still there, while another id is absent from the store
C39_Witness ==
    \E p \in Procs, d \in DOMAIN db :
        /\ Done(p, "delete")
        /\ op[p].document_id = d
        /\ db[d].user_id # op[p].user_id
        /\ db[d].embedding_id \in DOMAIN index
        /\ res[p] = NotFound("delete")
        /\ DocIds \ DOMAIN db # {}

====
